---- MODULE Spec2Model ----
(***************************************************************************)
(* Model of the playlist utilities: the M3U parser / batch splitter /      *)
(* batch writer (m3u_splitter.py), the playlist adder                      *)
(* (spotify_playlist_adder.py), the deduplicator                           *)
(* (spotify_playlist_deduplicator.py) and the backup exporter              *)
(* (spotify_playlist_backup.py).                                           *)
(*                                                                         *)
(* Text is modelled as a sequence of one-character strings, so that        *)
(* strip(), startswith(), split(), int() and str() are computed as the     *)
(* code computes them.  A file is the sequence of its lines.               *)
(***************************************************************************)
EXTENDS Integers, Sequences, FiniteSets, TLC

(***************************************************************************)
(* Bounds of the model.                                                    *)
(***************************************************************************)
\* longest playlist file of the splitter model, in lines
MaxLines == 3
\* largest batch_size the splitter model draws
MaxBatchSize == 3
\* adder model: tracks of a batch file that are drawn freely
MaxTracks == 2
\* adder model: directly resolvable tracks that precede them in a long batch file
MaxPad == 101
\* adder model: rate_limit is drawn from 1..MaxRateLimit and the default
MaxRateLimit == 2
\* deduplicator model: items of a playlist that are drawn freely
MaxItems == 3
\* deduplicator model: copies of one track that open a long playlist
MaxDupPad == 101
\* deduplicator model: items drawn freely that follow them
MaxTail == 1
\* backup model: largest remote collection a pagination loop reads
MaxRemote == 101
\* backup model: most playlists of the user
MaxPlaylists == 2
\* backup model: longest selected_playlists / exclude_playlists that
\* determine_playlist_exports is called with
MaxEntries == 2
\* backup model: longest selected_playlists / exclude_playlists of a run of main
MaxRunEntries == 1
\* adder main model: tracks of a short playlist file
MaxRunTracks == 2
\* adder main model: track URLs of the long playlist file
MaxUrlTracks == 10

(***************************************************************************)
(* Python string primitives over sequences of characters.                  *)
(***************************************************************************)
\* the whitespace characters of the model's alphabet (str.strip())
Whitespace == {" ", "\t"}

IsSpace(c) == c \in Whitespace

RECURSIVE LStrip(_)
LStrip(s) == IF s # <<>> /\ IsSpace(Head(s)) THEN LStrip(Tail(s)) ELSE s

RECURSIVE RStrip(_)
RStrip(s) ==
  IF s # <<>> /\ IsSpace(s[Len(s)]) THEN RStrip(SubSeq(s, 1, Len(s) - 1)) ELSE s

\* str.strip()
Strip(s) == RStrip(LStrip(s))

\* str.startswith(p)
StartsWith(s, p) == Len(s) >= Len(p) /\ SubSeq(s, 1, Len(p)) = p

\* s[n:]
From(s, n) == SubSeq(s, n + 1, Len(s))

\* str.find(sub) + 1: the 1-based index of the first occurrence, 0 if none
Find(s, sub) ==
  LET occ == {i \in 1..(Len(s) - Len(sub) + 1) : SubSeq(s, i, i + Len(sub) - 1) = sub}
  IN  IF occ = {} THEN 0 ELSE CHOOSE i \in occ : \A j \in occ : i <= j

\* sub in s
Contains(s, sub) == Find(s, sub) # 0

\* str.split(sep, 1)
Split1(s, sep) ==
  LET i == Find(s, sep)
  IN  IF i = 0 THEN <<s>>
      ELSE <<SubSeq(s, 1, i - 1), SubSeq(s, i + Len(sep), Len(s))>>

Digits == <<"0", "1", "2", "3", "4", "5", "6", "7", "8", "9">>

IsDigit(c) == \E i \in 1..Len(Digits) : Digits[i] = c

DigitVal(c) == (CHOOSE i \in 1..Len(Digits) : Digits[i] = c) - 1

RECURSIVE DigitsVal(_)
DigitsVal(s) ==
  IF s = <<>> THEN 0 ELSE 10 * DigitsVal(SubSeq(s, 1, Len(s) - 1)) + DigitVal(s[Len(s)])

\* the digits of int(s): surrounding whitespace and one sign are dropped
IntBody(s) ==
  LET t == Strip(s)
  IN  IF t # <<>> /\ Head(t) \in {"+", "-"} THEN Tail(t) ELSE t

\* int(s) does not raise ValueError
IntOk(s) == IntBody(s) # <<>> /\ \A i \in 1..Len(IntBody(s)) : IsDigit(IntBody(s)[i])

\* int(s), for IntOk(s)
IntVal(s) ==
  LET t == Strip(s)
  IN  IF t # <<>> /\ Head(t) = "-" THEN 0 - DigitsVal(IntBody(s)) ELSE DigitsVal(IntBody(s))

RECURSIVE NatToStr(_)
NatToStr(n) ==
  IF n < 10 THEN <<Digits[n + 1]>> ELSE NatToStr(n \div 10) \o <<Digits[(n % 10) + 1]>>

\* str(n) of an int
IntToStr(n) == IF n < 0 THEN <<"-">> \o NatToStr(0 - n) ELSE NatToStr(n)

(***************************************************************************)
(* m3u_splitter.py                                                         *)
(***************************************************************************)
EXTM3U == <<"#", "E", "X", "T", "M", "3", "U">>

EXTINF == <<"#", "E", "X", "T", "I", "N", "F", ":">>

Hash == <<"#">>

ArtistSep == <<" ", "-", " ">>

Comma == <<",">>

\* the record appended for a path line without pending metadata
DefaultSong(path) ==
  [path |-> path, title |-> <<>>, artist |-> <<>>, duration |-> 0, metadata |-> <<>>]

\* the try block of the #EXTINF branch: ok = FALSE when int() raises
ParseExtinf(line) ==
  LET metadata     == Split1(From(line, 8), Comma)
      title_artist == IF Len(metadata) > 1 THEN metadata[2] ELSE <<>>
      parts        == Split1(title_artist, ArtistSep)
      hasSep       == Contains(title_artist, ArtistSep)
  IN  IF ~IntOk(metadata[1]) THEN [ok |-> FALSE]
      ELSE [ok   |-> TRUE,
            song |-> [path     |-> <<>>,
                      title    |-> IF hasSep THEN Strip(parts[2]) ELSE title_artist,
                      artist   |-> IF hasSep THEN Strip(parts[1]) ELSE <<>>,
                      duration |-> IntVal(metadata[1]),
                      metadata |-> title_artist]]

NoSong == [none |-> TRUE]

\* parse_m3u's line loop with the last branch lost: a path line without
\* pending metadata appends nothing
ParseLineDropsBarePath(st, raw) ==
  LET line == Strip(raw)
  IN  IF line = <<>> THEN st
      ELSE IF line = EXTM3U THEN st
      ELSE IF StartsWith(line, EXTINF)
        THEN IF ParseExtinf(line).ok
               THEN [st EXCEPT !.current_song = ParseExtinf(line).song]
               ELSE [st EXCEPT !.current_song = NoSong]
      ELSE IF ~StartsWith(line, Hash) /\ st.current_song # NoSong
        THEN [songs        |-> Append(st.songs, [st.current_song EXCEPT !.path = line]),
              current_song |-> NoSong]
      ELSE st

\* parse_m3u's line loop in which a comment line clears the pending metadata
ParseLineCommentCancels(st, raw) ==
  LET line == Strip(raw)
  IN  IF line = <<>> THEN st
      ELSE IF line = EXTM3U THEN st
      ELSE IF StartsWith(line, EXTINF)
        THEN IF ParseExtinf(line).ok
               THEN [st EXCEPT !.current_song = ParseExtinf(line).song]
               ELSE [st EXCEPT !.current_song = NoSong]
      ELSE IF ~StartsWith(line, Hash) /\ st.current_song # NoSong
        THEN [songs        |-> Append(st.songs, [st.current_song EXCEPT !.path = line]),
              current_song |-> NoSong]
      ELSE IF StartsWith(line, Hash) THEN [st EXCEPT !.current_song = NoSong]
      ELSE [st EXCEPT !.songs = Append(st.songs, DefaultSong(line))]

\* one iteration of the line loop of parse_m3u on the state (songs, current_song)
ParseLine(st, raw) ==
  LET line == Strip(raw)
  IN  IF line = <<>> THEN st
      ELSE IF line = EXTM3U THEN st
      ELSE IF StartsWith(line, EXTINF)
        THEN IF ParseExtinf(line).ok
               THEN [st EXCEPT !.current_song = ParseExtinf(line).song]
               ELSE [st EXCEPT !.current_song = NoSong]
      ELSE IF ~StartsWith(line, Hash) /\ st.current_song # NoSong
        THEN [songs        |-> Append(st.songs, [st.current_song EXCEPT !.path = line]),
              current_song |-> NoSong]
      ELSE IF StartsWith(line, Hash) THEN st
      ELSE [st EXCEPT !.songs = Append(st.songs, DefaultSong(line))]

\* the line loop applied to lines lo..hi in order, starting from state st.
\* The range is halved and the state after the first half is computed before
\* the second half is entered (the test on it is always true), so that the
\* evaluation of a long file does not nest once per line.
RECURSIVE ParseLines(_, _, _, _)
ParseLines(st, lines, lo, hi) ==
  IF lo > hi THEN st
  ELSE IF lo = hi THEN ParseLine(st, lines[lo])
  ELSE LET half == ParseLines(st, lines, lo, (lo + hi) \div 2)
       IN  IF Len(half.songs) <= hi
             THEN ParseLines(half, lines, (lo + hi) \div 2 + 1, hi)
             ELSE half

\* parse_m3u on the lines of a file
parse_m3u(lines) ==
  ParseLines([songs |-> <<>>, current_song |-> NoSong], lines, 1, Len(lines)).songs

\* range(0, len(songs), batch_size), batch_size >= 1
BatchStarts(n, size) == {i \in 0..(n - 1) : i % size = 0}

\* songs[i:i + batch_size - 1]: a slice one record short
SliceShort(s, i, size) ==
  SubSeq(s, i + 1, IF i + size - 1 < Len(s) THEN i + size - 1 ELSE Len(s))

\* songs[i:i + batch_size]
Slice(s, i, size) == SubSeq(s, i + 1, IF i + size < Len(s) THEN i + size ELSE Len(s))

split_into_batches(list, size) ==
  [k \in 1..Cardinality(BatchStarts(Len(list), size)) |-> Slice(list, (k - 1) * size, size)]

\* the lines save_batches writes for one song
SongLines(song) ==
  (IF song.metadata # <<>>
     THEN <<EXTINF \o IntToStr(song.duration) \o Comma \o song.metadata>>
     ELSE <<>>) \o <<song.path>>

RECURSIVE BatchLines(_)
BatchLines(batch) ==
  IF batch = <<>> THEN <<>> ELSE SongLines(Head(batch)) \o BatchLines(Tail(batch))

BaseName == <<"p">>

M3uExt == <<".", "m", "3", "u">>

\* save_batches: one file per batch, named <base>_<i+1>.m3u, in batch order
save_batches(bs) ==
  [k \in 1..Len(bs) |->
     [name  |-> BaseName \o <<"_">> \o IntToStr(k) \o M3uExt,
      lines |-> <<EXTM3U>> \o BatchLines(bs[k])]]

(***************************************************************************)
(* spotify_playlist_adder.py: pure helpers                                 *)
(***************************************************************************)
Letters ==
  {"a", "b", "c", "d", "e", "f", "g", "h", "i", "j", "k", "l", "m",
   "n", "o", "p", "q", "r", "s", "t", "u", "v", "w", "x", "y", "z",
   "A", "B", "C", "D", "E", "F", "G", "H", "I", "J", "K", "L", "M",
   "N", "O", "P", "Q", "R", "S", "T", "U", "V", "W", "X", "Y", "Z"}

\* [a-zA-Z0-9]
IsAlnum(c) == c \in Letters \/ IsDigit(c)

\* urllib.parse.scheme_chars
IsSchemeChar(c) == IsAlnum(c) \/ c \in {"+", "-", "."}

\* str.rfind(sub) + 1: the 1-based index of the last occurrence, 0 if none
RFind(s, sub) ==
  LET occ == {i \in 1..(Len(s) - Len(sub) + 1) : SubSeq(s, i, i + Len(sub) - 1) = sub}
  IN  IF occ = {} THEN 0 ELSE CHOOSE i \in occ : \A j \in occ : j <= i

\* urlsplit: the url with its "scheme:" prefix removed, when it has one
UrlAfterScheme(url) ==
  LET i == Find(url, <<":">>)
  IN  IF i > 1 /\ url[1] \in Letters /\ \A k \in 1..(i - 1) : IsSchemeChar(url[k])
        THEN From(url, i)
        ELSE url

\* _splitnetloc(url, 2): 1-based index of the first of "/?#" after the "//",
\* Len + 1 when there is none
NetlocEnd(rest) ==
  LET ends == {k \in 3..Len(rest) : rest[k] \in {"/", "?", "#"}}
  IN  IF ends = {} THEN Len(rest) + 1 ELSE CHOOSE k \in ends : \A j \in ends : k <= j

\* urlparse(url).netloc
UrlNetloc(url) ==
  LET rest == UrlAfterScheme(url)
  IN  IF StartsWith(rest, <<"/", "/">>) THEN SubSeq(rest, 3, NetlocEnd(rest) - 1) ELSE <<>>

\* urlparse(url).path: what follows the netloc, up to the fragment and query
UrlPath(url) ==
  LET rest     == UrlAfterScheme(url)
      afterNet == IF StartsWith(rest, <<"/", "/">>)
                    THEN SubSeq(rest, NetlocEnd(rest), Len(rest)) ELSE rest
      noFrag   == Split1(afterNet, <<"#">>)[1]
  IN  Split1(noFrag, <<"?">>)[1]

SpotifyHost ==
  <<"o", "p", "e", "n", ".", "s", "p", "o", "t", "i", "f", "y", ".", "c", "o", "m">>

TrackWord == <<"t", "r", "a", "c", "k">>

is_spotify_url(url) == UrlNetloc(url) = SpotifyHost /\ Contains(UrlPath(url), TrackWord)

NoId == <<>>

\* the positions where re.search(r'track/([a-zA-Z0-9]+)', url) can match
TrackIdMatches(url) ==
  {i \in 1..(Len(url) - 6) :
     SubSeq(url, i, i + 5) = TrackWord \o <<"/">> /\ IsAlnum(url[i + 6])}

\* the longest run of [a-zA-Z0-9] of s starting at position i
RECURSIVE AlnumRun(_, _)
AlnumRun(s, i) ==
  IF i <= Len(s) /\ IsAlnum(s[i]) THEN <<s[i]>> \o AlnumRun(s, i + 1) ELSE <<>>

\* extract_track_id_from_url: group 1 of the leftmost match, NoId for None
extract_track_id_from_url(url) ==
  IF TrackIdMatches(url) = {} THEN NoId
  ELSE LET i == CHOOSE k \in TrackIdMatches(url) : \A j \in TrackIdMatches(url) : k <= j
       IN  AlnumRun(url, i + 6)

\* os.path.basename
Basename(path) == From(path, RFind(path, <<"/">>))

\* os.path.splitext(name)[0]: the extension starts at the last dot, unless
\* only dots precede it in the file name
SplitextRoot(name) ==
  LET sepIndex == RFind(name, <<"/">>)
      dotIndex == RFind(name, <<".">>)
  IN  IF dotIndex > sepIndex /\ \E k \in (sepIndex + 1)..(dotIndex - 1) : name[k] # "."
        THEN SubSeq(name, 1, dotIndex - 1)
        ELSE name

TrackPrefix == <<"t", "r", "a", "c", "k", ":">>

ArtistPrefix == <<" ", "a", "r", "t", "i", "s", "t", ":">>

\* f"track:{title} artist:{artist}"
TrackArtistQuery(title, artist) == TrackPrefix \o title \o ArtistPrefix \o artist

extract_search_query_from_song(song) ==
  IF song.artist # <<>> /\ song.title # <<>>
    THEN TrackArtistQuery(song.title, song.artist)
  ELSE IF song.path = <<>> THEN <<>>
  ELSE LET filename_without_ext == SplitextRoot(Basename(song.path))
           parts                == Split1(filename_without_ext, ArtistSep)
       IN  IF Len(parts) = 2 THEN TrackArtistQuery(parts[2], parts[1])
           ELSE filename_without_ext

(***************************************************************************)
(* spotify_playlist_deduplicator.py: find_duplicates                       *)
(***************************************************************************)
\* Python's None as an item or as the value of item['track']
NoneValue == [none |-> TRUE]

\* the id of a track that has none (track['id'] is None)
NoneId == "None"

\* not (not item or 'track' not in item or not item['track'])
HasTrack(item) ==
  /\ item # NoneValue
  /\ "track" \in DOMAIN item
  /\ item.track # NoneValue

\* the loop body of find_duplicates with the identifier stored before it is
\* looked up
FindStepStoresFirst(st, position, item) ==
  IF ~HasTrack(item) THEN st
  ELSE [st EXCEPT !.duplicates = Append(st.duplicates, position)]

\* the loop body of find_duplicates on the state (track_ids, duplicates)
FindStep(st, position, item) ==
  IF ~HasTrack(item) THEN st
  ELSE IF item.track.id \in DOMAIN st.track_ids
    THEN [st EXCEPT !.duplicates = Append(st.duplicates, position)]
    ELSE [st EXCEPT !.track_ids =
            [id \in DOMAIN st.track_ids \cup {item.track.id} |->
               IF id = item.track.id
                 THEN [position |-> position,
                       name     |-> item.track.name,
                       artists  |-> item.track.artists]
                 ELSE st.track_ids[id]]]

\* for position, item in enumerate(tracks), over the items lo..hi (the range
\* is halved, and the first half is evaluated before the second is entered)
RECURSIVE FindLoop(_, _, _, _)
FindLoop(st, list, lo, hi) ==
  IF lo > hi THEN st
  ELSE IF lo = hi THEN FindStep(st, lo - 1, list[lo])
  ELSE LET half == FindLoop(st, list, lo, (lo + hi) \div 2)
       IN  IF Len(half.duplicates) <= hi
             THEN FindLoop(half, list, (lo + hi) \div 2 + 1, hi)
             ELSE half

\* find_duplicates(tracks): (track_ids, duplicates), positions counted from 0
find_duplicates(list) ==
  FindLoop([track_ids |-> <<>>, duplicates |-> <<>>], list, 1, Len(list))

(***************************************************************************)
(* spotify_playlist_deduplicator.py: get_playlist_tracks, remove_duplicates *)
(***************************************************************************)
\* the items one call of sp.playlist_items / sp.next returns at most (the
\* limit sp.playlist_items(playlist_id) is called with by default)
PageLimit == 100

\* results['items'] of the page that starts at offset
PageItems(remote, offset) ==
  SubSeq(remote, offset + 1,
         IF offset + PageLimit < Len(remote) THEN offset + PageLimit ELSE Len(remote))

\* results['next'] of the page that starts at offset is not None
PageHasNext(remote, offset) == offset + PageLimit < Len(remote)

\* a track['uri'] that is None or empty
NoUri == ""

\* sorted(duplicate_positions, reverse=True): a stable sort, largest first
SortedReverse(s) ==
  LET n == Len(s)
      rank == [i \in 1..n |->
                 Cardinality({j \in 1..n : s[j] > s[i] \/ (s[j] = s[i] /\ j < i)}) + 1]
  IN  [k \in 1..n |-> s[CHOOSE i \in 1..n : rank[i] = k]]

\* 0 <= pos < len(tracks) and tracks[pos].get('track')
\*   and tracks[pos]['track'].get('uri')
HasUriAt(list, pos) ==
  /\ 0 <= pos
  /\ pos < Len(list)
  /\ HasTrack(list[pos + 1])
  /\ list[pos + 1].track.uri # NoUri

\* tracks_to_remove after the loop over positions_to_remove
TracksToRemove(positions, list) ==
  LET kept == SelectSeq(SortedReverse(positions), LAMBDA pos : HasUriAt(list, pos))
  IN  [k \in 1..Len(kept) |->
         [uri |-> list[kept[k] + 1].track.uri, positions |-> <<kept[k]>>]]

\* batch_size of remove_duplicates
RemoveBatchSize == 100

\* batches = [tracks_to_remove[i:i + batch_size] for i in range(0, len, batch_size)]
RemoveBatches(to_remove) ==
  [k \in 1..Cardinality(BatchStarts(Len(to_remove), RemoveBatchSize)) |->
     Slice(to_remove, (k - 1) * RemoveBatchSize, RemoveBatchSize)]

\* the playlist after sp.playlist_remove_specific_occurrences_of_items(
\* playlist_id, batch) has succeeded: the items at the named positions are gone
RemoveOccurrences(remote, batch) ==
  LET gone == {batch[k].positions[1] + 1 : k \in 1..Len(batch)}
      kept == SelectSeq([i \in 1..Len(remote) |-> i], LAMBDA i : i \notin gone)
  IN  [k \in 1..Len(kept) |-> remote[kept[k]]]

(***************************************************************************)
(* spotify_playlist_backup.py: the pagination loops                        *)
(***************************************************************************)
\* limit of fetch_all_playlists
PlaylistsLimit == 50
\* limit of fetch_playlist_tracks
TracksLimit == 100
\* limit of fetch_liked_songs
LikedLimit == 50

\* the response of the remote to a request (limit, offset) on a collection:
\* the items of the page, and a next page exactly while offset + limit is
\* short of the size of the collection
RemotePage(coll, limit, offset) ==
  [items |-> SubSeq(coll, offset + 1,
                    IF offset + limit < Len(coll) THEN offset + limit ELSE Len(coll)),
   next  |-> offset + limit < Len(coll)]

\* the next request starts on the last item of the page before
NextOffsetOverlaps(offset, limit) == offset + limit - 1

\* offset += limit
NextOffset(offset, limit) == offset + limit

\* the while True loop of a fetch function, from offset on
RECURSIVE FetchAll(_, _, _, _)
FetchAll(coll, limit, offset, items) ==
  LET response == RemotePage(coll, limit, offset)
  IN  IF response.next
        THEN FetchAll(coll, limit, NextOffset(offset, limit), items \o response.items)
        ELSE items \o response.items

(***************************************************************************)
(* spotify_playlist_backup.py: parse_format, resolve_identifier,           *)
(* determine_playlist_exports.  A string that is None or empty is <<>>:    *)
(* the code tests these values for truth only.                             *)
(***************************************************************************)
UpperCase ==
  <<"A", "B", "C", "D", "E", "F", "G", "H", "I", "J", "K", "L", "M",
    "N", "O", "P", "Q", "R", "S", "T", "U", "V", "W", "X", "Y", "Z">>

LowerCase ==
  <<"a", "b", "c", "d", "e", "f", "g", "h", "i", "j", "k", "l", "m",
    "n", "o", "p", "q", "r", "s", "t", "u", "v", "w", "x", "y", "z">>

\* str.lower() and str.casefold() on the model's alphabet
Lower(s) ==
  [k \in 1..Len(s) |->
     IF \E i \in 1..Len(UpperCase) : UpperCase[i] = s[k]
       THEN LowerCase[CHOOSE i \in 1..Len(UpperCase) : UpperCase[i] = s[k]]
       ELSE s[k]]

FmtBoth == <<"b", "o", "t", "h">>
FmtJson == <<"j", "s", "o", "n">>
FmtM3u == <<"m", "3", "u">>

\* parse_format(value)
parse_format(value) ==
  LET normalized == Lower(IF value = <<>> THEN FmtBoth ELSE value)
  IN  IF normalized = FmtBoth THEN <<FmtJson, FmtM3u>>
      ELSE IF normalized \in {FmtJson, FmtM3u} THEN <<normalized>>
      ELSE <<FmtJson, FmtM3u>>

\* 'spotify:playlist:'
PlaylistUriPrefix ==
  <<"s", "p", "o", "t", "i", "f", "y", ":", "p", "l", "a", "y", "l",
    "i", "s", "t", ":">>

\* 'open.spotify.com/playlist/'
PlaylistUrlMarker ==
  <<"o", "p", "e", "n", ".", "s", "p", "o", "t", "i", "f", "y", ".",
    "c", "o", "m", "/", "p", "l", "a", "y", "l", "i", "s", "t", "/">>

\* isinstance(entry, dict): a dict entry is a record of its keys id, name and
\* format, a key that is absent or empty being <<>>
IsDict(entry) == "id" \in DOMAIN entry

\* isinstance(entry, str): a string entry is a record of its text
IsStr(entry) == "str" \in DOMAIN entry

\* value.split('open.spotify.com/playlist/')[1].split('?')[0]
UrlPlaylistId(value) ==
  LET rest == From(value, Find(value, PlaylistUrlMarker) - 1 + Len(PlaylistUrlMarker))
  IN  Split1(Split1(rest, PlaylistUrlMarker)[1], <<"?">>)[1]

\* re.fullmatch(r'[A-Za-z0-9]{22}', value)
IsBareId(value) == Len(value) = 22 /\ \A k \in 1..Len(value) : IsAlnum(value[k])

\* resolve_identifier(entry): the keys id and name, <<>> for a key not given
resolve_identifier(entry) ==
  IF IsDict(entry) THEN [id |-> entry.id, name |-> entry.name]
  ELSE IF IsStr(entry) THEN
    LET value == Strip(entry.str)
    IN  IF StartsWith(value, PlaylistUriPrefix)
          THEN [id |-> From(value, RFind(value, <<":">>)), name |-> <<>>]
        ELSE IF Contains(value, PlaylistUrlMarker)
          THEN [id |-> UrlPlaylistId(value), name |-> <<>>]
        ELSE IF IsBareId(value)
          THEN [id |-> value, name |-> <<>>]
        ELSE [id |-> <<>>, name |-> value]
  ELSE [id |-> <<>>, name |-> <<>>]

\* by_id.get(playlist_id): the last playlist enumerated with this id, or None
ById(enumerated, id) ==
  LET hits == {k \in 1..Len(enumerated) : enumerated[k].id = id}
  IN  IF hits = {} THEN NoneValue
      ELSE enumerated[CHOOSE k \in hits : \A j \in hits : j <= k]

\* name_map.get(playlist_name.casefold(), [])
NameMatches(enumerated, name) ==
  SelectSeq(enumerated, LAMBDA p : Lower(p.name) = Lower(name))

\* the lookup where a name that matches several playlists gives the first
NameLookupFirstOfAmbiguous(enumerated, name) ==
  IF Len(NameMatches(enumerated, name)) >= 1
    THEN NameMatches(enumerated, name)[1]
    ELSE NoneValue

\* find_playlist, the lookup by name: no match and several matches give None
NameLookup(enumerated, name) ==
  IF Len(NameMatches(enumerated, name)) = 1
    THEN NameMatches(enumerated, name)[1]
    ELSE NoneValue

\* find_playlist where an id that is not found gives way to the name
find_playlistNameAfterUnknownId(details, enumerated) ==
  IF details.id # <<>> /\ ById(enumerated, details.id) # NoneValue
    THEN ById(enumerated, details.id)
  ELSE IF details.name # <<>> THEN NameLookup(enumerated, details.name)
  ELSE NoneValue

\* find_playlist(entry) of determine_playlist_exports: the playlist, or None
find_playlist(details, enumerated) ==
  IF details.id # <<>> THEN ById(enumerated, details.id)
  ELSE IF details.name # <<>> THEN NameLookup(enumerated, details.name)
  ELSE NoneValue

\* set(resolve_ids(entries))
resolve_ids(entries, enumerated) ==
  {find_playlist(resolve_identifier(entries[k]), enumerated).id :
     k \in {j \in 1..Len(entries) :
              find_playlist(resolve_identifier(entries[j]), enumerated) # NoneValue}}

\* entry_format of a selected entry
EntryFormat(entry, default_format) ==
  IF IsDict(entry)
    THEN parse_format(IF entry.format # <<>> THEN entry.format ELSE default_format)
    ELSE parse_format(default_format)

\* determine_playlist_exports(config, playlists)
determine_playlist_exports(cfg, enumerated) ==
  IF cfg.mode = "all"
    THEN LET excluded_ids == resolve_ids(cfg.exclude_playlists, enumerated)
             kept == SelectSeq(enumerated, LAMBDA p : p.id \notin excluded_ids)
         IN  [k \in 1..Len(kept) |->
                [id |-> kept[k].id, name |-> kept[k].name,
                 format |-> parse_format(cfg.default_format)]]
    ELSE LET selected == cfg.selected_playlists
             found == [k \in 1..Len(selected) |->
                         find_playlist(resolve_identifier(selected[k]), enumerated)]
             hits == SelectSeq([k \in 1..Len(selected) |-> k],
                               LAMBDA k : found[k] # NoneValue)
         IN  [j \in 1..Len(hits) |->
                [id |-> found[hits[j]].id, name |-> found[hits[j]].name,
                 format |-> EntryFormat(selected[hits[j]], cfg.default_format)]]

(***************************************************************************)
(* The playlist lines the splitter model reads.                            *)
(***************************************************************************)
LnEmpty == <<>>
LnBlank == <<" ", " ">>
LnComment == <<"#", "c">>
LnIndentedComment == <<" ", "#", "c">>
LnInfArtist == EXTINF \o <<"1", "2", ",", "A", " ", "-", " ", "T">>
LnInfTitle == EXTINF \o <<"-", "1", ",", "T">>
LnInfNoComma == EXTINF \o <<"0", "7">>
LnInfBad == EXTINF \o <<"x", ",", "T">>
LnPath == <<"a", ".", "m", "p", "3">>
LnPathPadded == <<" ", "b", "\t">>

M3uLines ==
  {LnEmpty, LnBlank, EXTM3U, LnComment, LnIndentedComment, LnInfArtist,
   LnInfTitle, LnInfNoComma, LnInfBad, LnPath, LnPathPadded}

RECURSIVE SeqsUpTo(_, _)
SeqsUpTo(S, n) ==
  IF n = 0 THEN {<<>>}
  ELSE LET shorter == SeqsUpTo(S, n - 1)
       IN  shorter \cup {Append(s, x) : s \in {t \in shorter : Len(t) = n - 1}, x \in S}

RECURSIVE Concat(_)
Concat(ss) == IF ss = <<>> THEN <<>> ELSE Head(ss) \o Concat(Tail(ss))

(***************************************************************************)
(* The batch files the adder model reads.                                  *)
(***************************************************************************)
HttpsPrefix == <<"h", "t", "t", "p", "s", ":", "/", "/">>

\* a track URL with an identifier
LnUrl == HttpsPrefix \o SpotifyHost \o <<"/", "t", "r", "a", "c", "k", "/", "a", "1">>
\* a track URL without an identifier
LnUrlNoId == HttpsPrefix \o SpotifyHost \o <<"/", "t", "r", "a", "c", "k", "/">>
\* a file named "artist - title"
LnFileArtist == <<"B", " ", "-", " ", "S", ".", "m", "p", "3">>
\* the track URL that fills a long batch file
LnPadUrl == HttpsPrefix \o SpotifyHost \o <<"/", "t", "r", "a", "c", "k", "/", "p">>

\* the lines of one track of a batch file
AdderEntries == {<<LnUrl>>, <<LnUrlNoId>>, <<LnInfArtist, LnPath>>, <<LnFileArtist>>}

\* a batch file: the header, pad directly resolvable tracks, then the entries
BatchFile(pad, entries) == <<EXTM3U>> \o [k \in 1..pad |-> LnPadUrl] \o Concat(entries)

BatchFiles == {BatchFile(pad, entries) : pad \in {0, MaxPad}, entries \in SeqsUpTo(AdderEntries, MaxTracks)}

\* rate_limit=100 in the signature of process_m3u_batch
DefaultRateLimit == 100

RateLimits == (1..MaxRateLimit) \cup {DefaultRateLimit}

\* identifiers a search can return
SearchIds == {<<"s", "1">>, <<"s", "2">>}

\* the add loop submits track_ids[i:i+100]
AddBatchSize == 100

(***************************************************************************)
(* spotify_playlist_adder.py: main and create_failed_m3u                   *)
(***************************************************************************)
\* urlparse(url) raises ValueError("Invalid IPv6 URL"): the netloc holds one
\* of "[" and "]" without the other
UrlParseRaises(url) ==
  Contains(UrlNetloc(url), <<"[">>) # Contains(UrlNetloc(url), <<"]">>)

\* the printable ASCII characters in the order of their code points, from 32
\* (the backquote, which no text of the model holds, is written by its name)
Ascii ==
  <<" ", "!", "\"", "#", "$", "%", "&", "'", "(", ")", "*", "+", ",", "-", ".", "/",
    "0", "1", "2", "3", "4", "5", "6", "7", "8", "9", ":", ";", "<", "=", ">", "?",
    "@", "A", "B", "C", "D", "E", "F", "G", "H", "I", "J", "K", "L", "M", "N", "O",
    "P", "Q", "R", "S", "T", "U", "V", "W", "X", "Y", "Z", "[", "\\", "]", "^", "_",
    "backquote", "a", "b", "c", "d", "e", "f", "g", "h", "i", "j", "k", "l", "m", "n", "o",
    "p", "q", "r", "s", "t", "u", "v", "w", "x", "y", "z", "{", "|", "}", "~">>

\* ord(c)
CodePoint(c) == 31 + CHOOSE i \in 1..Len(Ascii) : Ascii[i] = c

\* a < b for two str: the first character that differs decides, and a proper
\* prefix is the smaller
StrLess(a, b) ==
  \E k \in 1..(Len(b)) :
    /\ k - 1 <= Len(a)
    /\ SubSeq(a, 1, k - 1) = SubSeq(b, 1, k - 1)
    /\ (k > Len(a) \/ CodePoint(a[k]) < CodePoint(b[k]))

\* sorted(glob.glob(os.path.join(batch_dir, '*.m3u'))): the files of the
\* directory (their names differ) in the order of their names
SortedGlob(files) ==
  LET n == Len(files)
      rank == [i \in 1..n |->
                 Cardinality({j \in 1..n : StrLess(files[j].name, files[i].name)}) + 1]
  IN  [k \in 1..n |-> files[CHOOSE i \in 1..n : rank[i] = k]]

\* the lines create_failed_m3u writes for one track
FailedTrackLines(track) ==
  (IF track.metadata # <<>> \/ (track.artist # <<>> /\ track.title # <<>>)
     THEN <<EXTINF \o IntToStr(track.duration) \o Comma
              \o (IF track.metadata = <<>>
                    THEN track.artist \o ArtistSep \o track.title
                    ELSE track.metadata)>>
     ELSE <<>>) \o <<track.path>>

\* the lines create_failed_m3u(failed_tracks, output_path) writes
create_failed_m3u(failed) ==
  <<EXTM3U>> \o Concat([k \in 1..Len(failed) |-> FailedTrackLines(failed[k])])

(***************************************************************************)
(* State                                                                   *)
(***************************************************************************)
VARIABLES
  m3u_file,      \* splitter: lines of the input playlist file
  batch_size,    \* splitter: --batch-size
  songs,         \* splitter: result of parse_m3u
  batches,       \* splitter: result of split_into_batches
  saved_files,   \* splitter: the batch files written by save_batches
  reread,        \* splitter: parse_m3u of each saved batch file, in batch order
  spc,           \* splitter: position of the run
  batch_file,    \* adder: lines of the batch file at file_path
  rate_limit,    \* adder: rate_limit
  tracks,        \* adder: parse_m3u(file_path)
  count,         \* adder: count
  track_ids,     \* adder: track_ids
  failed_tracks, \* adder: failed_tracks
  failed_file,   \* adder: the lines of the file at failed_output
  failed_handle, \* adder: the file object failed_file: "none", "open" or "closed"
  successful,    \* adder: successful
  add_i,         \* adder: i of the add loop
  result,        \* adder: the returned tuple
  apc,           \* adder: position in process_m3u_batch
  slept,         \* adder history: time.sleep(5) ran in the current iteration
  pauses,        \* adder history: number of time.sleep(5) calls so far
  since_pause,   \* adder history: sp.search calls since the last time.sleep(5)
  search_calls,  \* adder history: the sp.search calls, [n: track number, q: query, found: id]
  outcome,       \* adder history: how each processed track ended
  add_calls,     \* adder history: the sp.playlist_add_items calls, [ids, ok]
  playlist_items,      \* deduplicator: tracks, the items of the playlist
  unique_tracks,       \* deduplicator: unique_tracks of main
  duplicate_positions, \* deduplicator: duplicate_positions of main
  dpc,                 \* deduplicator: position of the run
  entry,               \* deduplicator: the function the run entered by
  logger_bound,        \* deduplicator: the module global logger is bound
  dry_run,             \* deduplicator: args.dry_run
  credentials,         \* deduplicator: SPOTIFY_CLIENT_ID and _SECRET are set
  remote_playlist,     \* deduplicator: the items of the playlist at Spotify
  more_pages,          \* deduplicator: results['next'] of get_playlist_tracks
  tracks_to_remove,    \* deduplicator: tracks_to_remove of remove_duplicates
  rm_i,                \* deduplicator: number of the batch the loop is at
  removed_count,       \* deduplicator: removed_count of remove_duplicates
  dd_return,           \* deduplicator: what main returned, -1 before it has
  remove_calls,        \* deduplicator history: the removal calls, [batch, ok]
  remote_failed,       \* deduplicator history: a call to Spotify has raised
  fetch_kind,          \* backup, pagination: the fetch function that runs
  remote_items,        \* backup, pagination: the collection at Spotify
  fetch_offset,        \* backup, pagination: offset
  fetch_items,         \* backup, pagination: the list the function extends
  fetch_requests,      \* backup, pagination history: the offsets requested
  fpc,                 \* backup, pagination: position of the loop
  config,              \* backup: config of main
  user_playlists,      \* backup: the playlists of the user at Spotify
  playlists,           \* backup: playlists of main
  planned_exports,     \* backup: planned_exports of main
  export_records,      \* backup: export_records of main
  exp_i,               \* backup: number of the planned export the loop is at
  writes,              \* backup: the files written, [call, directory, file]
  dirs,                \* backup: the directories created
  manifest,            \* backup: the manifest written, None before
  failed_export,       \* backup history: the export whose remote call raised
  bpc,                 \* backup: position of the run
  mpc,                 \* adder main: position of the run
  batch_files,         \* adder main: batch_files, the sorted glob
  batch_n,             \* adder main: number of the batch file the loop is at
  all_failed_tracks,   \* adder main: all_failed_tracks
  failed_m3u,          \* adder main: the lines of the file at failed_m3u, <<>> if none
  truncations,         \* adder main history: times failed_output was truncated
  submitted,           \* adder main history: the ids of the add calls of the batches
  processed            \* adder main history: names of the batch files processed

splitVars == <<m3u_file, batch_size, songs, batches, saved_files, reread, spc>>

adderVars ==
  <<batch_file, rate_limit, tracks, count, track_ids, failed_tracks, failed_file,
    failed_handle, successful, add_i, result, apc, slept, pauses, since_pause,
    search_calls, outcome, add_calls>>

dedupVars ==
  <<playlist_items, unique_tracks, duplicate_positions, dpc, entry, logger_bound,
    dry_run, credentials, remote_playlist, more_pages, tracks_to_remove, rm_i,
    removed_count, dd_return, remove_calls, remote_failed>>

fetchVars ==
  <<fetch_kind, remote_items, fetch_offset, fetch_items, fetch_requests, fpc>>

backupVars ==
  <<config, user_playlists, playlists, planned_exports, export_records, exp_i,
    writes, dirs, manifest, failed_export, bpc>>

mainVars ==
  <<mpc, batch_files, batch_n, all_failed_tracks, failed_m3u, truncations,
    submitted, processed>>

vars == <<splitVars, adderVars, dedupVars, fetchVars, backupVars, mainVars>>

\* the splitter is not running
SplitIdle ==
  /\ m3u_file = <<>>
  /\ batch_size = 1
  /\ songs = <<>>
  /\ batches = <<>>
  /\ saved_files = <<>>
  /\ reread = <<>>
  /\ spc = "idle"

\* the variables of process_m3u_batch before it has run a statement
AdderFreshLocals ==
  /\ tracks = <<>>
  /\ count = 0
  /\ track_ids = <<>>
  /\ failed_tracks = <<>>
  /\ failed_handle = "none"
  /\ successful = 0
  /\ add_i = 0
  /\ result = <<>>
  /\ slept = FALSE
  /\ pauses = 0
  /\ since_pause = 0
  /\ search_calls = <<>>
  /\ outcome = <<>>
  /\ add_calls = <<>>

\* the adder before process_m3u_batch has run a statement, the file at
\* failed_output empty
AdderFresh ==
  /\ AdderFreshLocals
  /\ failed_file = <<>>

\* the adder is not running
AdderIdle ==
  /\ batch_file = <<>>
  /\ rate_limit = DefaultRateLimit
  /\ apc = "idle"
  /\ AdderFresh

\* main of the adder is not running
MainIdle ==
  /\ mpc = "idle"
  /\ batch_files = <<>>
  /\ batch_n = 0
  /\ all_failed_tracks = <<>>
  /\ failed_m3u = <<>>
  /\ truncations = 0
  /\ submitted = <<>>
  /\ processed = <<>>

\* the deduplicator is not running
DedupIdle ==
  /\ playlist_items = <<>>
  /\ unique_tracks = <<>>
  /\ duplicate_positions = <<>>
  /\ dpc = "idle"
  /\ entry = "none"
  /\ logger_bound = FALSE
  /\ dry_run = FALSE
  /\ credentials = FALSE
  /\ remote_playlist = <<>>
  /\ more_pages = FALSE
  /\ tracks_to_remove = <<>>
  /\ rm_i = 0
  /\ removed_count = 0
  /\ dd_return = -1
  /\ remove_calls = <<>>
  /\ remote_failed = FALSE

\* no pagination loop is running
FetchIdle ==
  /\ fetch_kind = "none"
  /\ remote_items = <<>>
  /\ fetch_offset = 0
  /\ fetch_items = <<>>
  /\ fetch_requests = <<>>
  /\ fpc = "idle"

\* the backup exporter is not running
BackupIdle ==
  /\ config = NoneValue
  /\ user_playlists = <<>>
  /\ playlists = <<>>
  /\ planned_exports = <<>>
  /\ export_records = <<>>
  /\ exp_i = 0
  /\ writes = <<>>
  /\ dirs = {}
  /\ manifest = NoneValue
  /\ failed_export = 0
  /\ bpc = "idle"

(***************************************************************************)
(* Splitter run: main of m3u_splitter.py, then the batch files read back.  *)
(***************************************************************************)
Init ==
  /\ m3u_file \in SeqsUpTo(M3uLines, MaxLines)
  /\ batch_size \in 1..MaxBatchSize
  /\ songs = <<>>
  /\ batches = <<>>
  /\ saved_files = <<>>
  /\ reread = <<>>
  /\ spc = "start"
  /\ AdderIdle
  /\ MainIdle
  /\ DedupIdle
  /\ FetchIdle
  /\ BackupIdle

Parse ==
  /\ spc = "start"
  /\ songs' = parse_m3u(m3u_file)
  /\ spc' = "parsed"
  /\ UNCHANGED <<m3u_file, batch_size, batches, saved_files, reread>>
  /\ UNCHANGED <<adderVars, dedupVars, fetchVars, backupVars, mainVars>>

SplitBatches ==
  /\ spc = "parsed"
  /\ batches' = split_into_batches(songs, batch_size)
  /\ spc' = "split"
  /\ UNCHANGED <<m3u_file, batch_size, songs, saved_files, reread>>
  /\ UNCHANGED <<adderVars, dedupVars, fetchVars, backupVars, mainVars>>

SaveBatches ==
  /\ spc = "split"
  /\ saved_files' = save_batches(batches)
  /\ spc' = "saved"
  /\ UNCHANGED <<m3u_file, batch_size, songs, batches, reread>>
  /\ UNCHANGED <<adderVars, dedupVars, fetchVars, backupVars, mainVars>>

ReadBack ==
  /\ spc = "saved"
  /\ reread' = [k \in 1..Len(saved_files) |-> parse_m3u(saved_files[k].lines)]
  /\ spc' = "reread"
  /\ UNCHANGED <<m3u_file, batch_size, songs, batches, saved_files>>
  /\ UNCHANGED <<adderVars, dedupVars, fetchVars, backupVars, mainVars>>

Next == Parse \/ SplitBatches \/ SaveBatches \/ ReadBack

Spec == Init /\ [][Next]_vars

(***************************************************************************)
(* Adder: one call of process_m3u_batch.                                   *)
(***************************************************************************)
InitAdder ==
  /\ batch_file \in BatchFiles
  /\ rate_limit \in RateLimits
  /\ apc = "start"
  /\ AdderFresh
  /\ MainIdle
  /\ SplitIdle
  /\ DedupIdle
  /\ FetchIdle
  /\ BackupIdle

\* a finally clause that does not close the file
FinallyLeavesOpen(handle) == handle

\* finally: if failed_file and not failed_file.closed: failed_file.close()
Finally(handle) == IF handle = "open" THEN "closed" ELSE handle

\* tracks = parse_m3u(file_path); failed_file = open(failed_output, 'a')
ParseBatch ==
  /\ apc = "start"
  /\ tracks' = parse_m3u(batch_file)
  /\ failed_handle' = "open"
  /\ apc' = "loop"
  /\ UNCHANGED <<batch_file, rate_limit, count, track_ids, failed_tracks, failed_file,
                 successful, add_i, result, slept, pauses, since_pause, search_calls,
                 outcome, add_calls>>
  /\ UNCHANGED <<splitVars, dedupVars, fetchVars, backupVars, mainVars>>

\* count % rate_limit == 1: the throttle one track late
ThrottleDueLate(c, limit) == c % limit = 1

\* count % rate_limit == 0
ThrottleDue(c, limit) == c % limit = 0

\* top of the track loop: count += 1, then the throttle
Throttle ==
  /\ apc = "loop"
  /\ count < Len(tracks)
  /\ count' = count + 1
  /\ slept' = ThrottleDue(count + 1, rate_limit)
  /\ pauses' = IF ThrottleDue(count + 1, rate_limit) THEN pauses + 1 ELSE pauses
  /\ since_pause' = IF ThrottleDue(count + 1, rate_limit) THEN 0 ELSE since_pause
  /\ apc' = "handle"
  /\ UNCHANGED <<batch_file, rate_limit, tracks, track_ids, failed_tracks, failed_file,
                 successful, add_i, result, search_calls, outcome, add_calls,
                 failed_handle>>
  /\ UNCHANGED <<splitVars, dedupVars, fetchVars, backupVars, mainVars>>

\* the track of the current iteration
Track == tracks[count]

\* the URL branch never taken
ResolvesFromUrlNever(track) == FALSE

\* the "continue" of the URL branch is taken
ResolvesFromUrl(track) ==
  is_spotify_url(track.path) /\ extract_track_id_from_url(track.path) # NoId

\* a Spotify URL with an identifier: append it and continue
HandleUrl ==
  /\ apc = "handle"
  /\ ResolvesFromUrl(Track)
  /\ track_ids' = Append(track_ids, extract_track_id_from_url(Track.path))
  /\ outcome' = Append(outcome, "url")
  /\ apc' = "loop"
  /\ UNCHANGED <<batch_file, rate_limit, tracks, count, failed_tracks, failed_file,
                 successful, add_i, result, slept, pauses, since_pause, search_calls,
                 add_calls, failed_handle>>
  /\ UNCHANGED <<splitVars, dedupVars, fetchVars, backupVars, mainVars>>

\* no query could be built: record the failure and continue
HandleNoQuery ==
  /\ apc = "handle"
  /\ ~UrlParseRaises(Track.path)
  /\ ~ResolvesFromUrl(Track)
  /\ extract_search_query_from_song(Track) = <<>>
  /\ failed_file' = Append(failed_file, Track.path)
  /\ failed_tracks' = Append(failed_tracks, Track)
  /\ outcome' = Append(outcome, "noquery")
  /\ apc' = "loop"
  /\ UNCHANGED <<batch_file, rate_limit, tracks, count, track_ids, successful, add_i,
                 result, slept, pauses, since_pause, search_calls, add_calls,
                 failed_handle>>
  /\ UNCHANGED <<splitVars, dedupVars, fetchVars, backupVars, mainVars>>

\* the search branch is reached: a query was built for a track not resolved
\* from its URL
SearchDue ==
  /\ apc = "handle"
  /\ ~UrlParseRaises(Track.path)
  /\ ~ResolvesFromUrl(Track)
  /\ extract_search_query_from_song(Track) # <<>>

\* the record of one sp.search(q=query, type='track', limit=1) call
SearchCall(found) ==
  [n |-> count, q |-> extract_search_query_from_song(Track), found |-> found]

\* the search returns an item: append its id
SearchFound ==
  /\ SearchDue
  /\ \E id \in SearchIds :
       /\ track_ids' = Append(track_ids, id)
       /\ search_calls' = Append(search_calls, SearchCall(id))
  /\ since_pause' = since_pause + 1
  /\ outcome' = Append(outcome, "found")
  /\ apc' = "loop"
  /\ UNCHANGED <<batch_file, rate_limit, tracks, count, failed_tracks, failed_file,
                 successful, add_i, result, slept, pauses, add_calls,
                 failed_handle>>
  /\ UNCHANGED <<splitVars, dedupVars, fetchVars, backupVars, mainVars>>

\* the search returns no item: record the failure
SearchEmpty ==
  /\ SearchDue
  /\ search_calls' = Append(search_calls, SearchCall(NoId))
  /\ since_pause' = since_pause + 1
  /\ failed_file' = Append(failed_file, Track.path)
  /\ failed_tracks' = Append(failed_tracks, Track)
  /\ outcome' = Append(outcome, "notfound")
  /\ apc' = "loop"
  /\ UNCHANGED <<batch_file, rate_limit, tracks, count, track_ids, successful, add_i,
                 result, slept, pauses, add_calls, failed_handle>>
  /\ UNCHANGED <<splitVars, dedupVars, fetchVars, backupVars, mainVars>>

\* the search raises and the except branch records the failure, without the
\* write to the failed-tracks file
SearchRaisesNoFileWrite ==
  /\ SearchDue
  /\ search_calls' = Append(search_calls, SearchCall(NoId))
  /\ since_pause' = since_pause + 1
  /\ failed_tracks' = Append(failed_tracks, Track)
  /\ outcome' = Append(outcome, "raised")
  /\ apc' = "loop"
  /\ UNCHANGED <<batch_file, rate_limit, tracks, count, track_ids, successful, add_i,
                 result, slept, pauses, add_calls, failed_file, failed_handle>>
  /\ UNCHANGED <<splitVars, dedupVars, fetchVars, backupVars, mainVars>>

\* the search raises: the except branch records the failure
SearchRaises ==
  /\ SearchDue
  /\ search_calls' = Append(search_calls, SearchCall(NoId))
  /\ since_pause' = since_pause + 1
  /\ failed_file' = Append(failed_file, Track.path)
  /\ failed_tracks' = Append(failed_tracks, Track)
  /\ outcome' = Append(outcome, "raised")
  /\ apc' = "loop"
  /\ UNCHANGED <<batch_file, rate_limit, tracks, count, track_ids, successful, add_i,
                 result, slept, pauses, add_calls, failed_handle>>
  /\ UNCHANGED <<splitVars, dedupVars, fetchVars, backupVars, mainVars>>

\* the track loop is exhausted: successful = 0 and the add loop starts
StartAdding ==
  /\ apc = "loop"
  /\ count = Len(tracks)
  /\ successful' = 0
  /\ add_i' = 0
  /\ apc' = "add"
  /\ UNCHANGED <<batch_file, rate_limit, tracks, count, track_ids, failed_tracks,
                 failed_file, result, slept, pauses, since_pause, search_calls, outcome,
                 add_calls, failed_handle>>
  /\ UNCHANGED <<splitVars, dedupVars, fetchVars, backupVars, mainVars>>

\* batch = track_ids[i:i+99]
AddBatchShort(ids, i) == SliceShort(ids, i, AddBatchSize)

\* batch = track_ids[i:i+100]
AddBatch(ids, i) == Slice(ids, i, AddBatchSize)

\* sp.playlist_add_items(playlist_id, batch) succeeds
AddSucceeds ==
  /\ apc = "add"
  /\ add_i < Len(track_ids)
  /\ add_calls' = Append(add_calls, [ids |-> AddBatch(track_ids, add_i), ok |-> TRUE])
  /\ successful' = successful + Len(AddBatch(track_ids, add_i))
  /\ add_i' = add_i + AddBatchSize
  /\ UNCHANGED <<batch_file, rate_limit, tracks, count, track_ids, failed_tracks,
                 failed_file, result, apc, slept, pauses, since_pause, search_calls,
                 outcome, failed_handle>>
  /\ UNCHANGED <<splitVars, dedupVars, fetchVars, backupVars, mainVars>>

\* sp.playlist_add_items raises and the batch is counted all the same
AddRaisesCounted ==
  /\ apc = "add"
  /\ add_i < Len(track_ids)
  /\ add_calls' = Append(add_calls, [ids |-> AddBatch(track_ids, add_i), ok |-> FALSE])
  /\ successful' = successful + Len(AddBatch(track_ids, add_i))
  /\ add_i' = add_i + AddBatchSize
  /\ UNCHANGED <<batch_file, rate_limit, tracks, count, track_ids, failed_tracks,
                 failed_file, result, apc, slept, pauses, since_pause, search_calls,
                 outcome, failed_handle>>
  /\ UNCHANGED <<splitVars, dedupVars, fetchVars, backupVars, mainVars>>

\* sp.playlist_add_items(playlist_id, batch) raises: logged, next batch
AddRaises ==
  /\ apc = "add"
  /\ add_i < Len(track_ids)
  /\ add_calls' = Append(add_calls, [ids |-> AddBatch(track_ids, add_i), ok |-> FALSE])
  /\ add_i' = add_i + AddBatchSize
  /\ UNCHANGED <<batch_file, rate_limit, tracks, count, track_ids, failed_tracks,
                 failed_file, successful, result, apc, slept, pauses, since_pause,
                 search_calls, outcome, failed_handle>>
  /\ UNCHANGED <<splitVars, dedupVars, fetchVars, backupVars, mainVars>>

\* return successful, len(failed_tracks), failed_tracks; the finally clause
\* closes failed_file
Return ==
  /\ apc = "add"
  /\ add_i >= Len(track_ids)
  /\ result' = <<successful, Len(failed_tracks), failed_tracks>>
  /\ failed_handle' = Finally(failed_handle)
  /\ apc' = "returned"
  /\ UNCHANGED <<batch_file, rate_limit, tracks, count, track_ids, failed_tracks,
                 failed_file, successful, add_i, slept, pauses, since_pause,
                 search_calls, outcome, add_calls>>
  /\ UNCHANGED <<splitVars, dedupVars, fetchVars, backupVars, mainVars>>

NextAdder ==
  \/ ParseBatch
  \/ Throttle
  \/ HandleUrl
  \/ HandleNoQuery
  \/ SearchFound
  \/ SearchEmpty
  \/ SearchRaises
  \/ StartAdding
  \/ AddSucceeds
  \/ AddRaises
  \/ Return

SpecAdder == InitAdder /\ [][NextAdder]_vars

(***************************************************************************)
(* Adder: main of spotify_playlist_adder.py on the batch directory the     *)
(* splitter wrote for a playlist file, or on one file of it.  Each batch   *)
(* file goes through process_m3u_batch, the actions above.                 *)
(***************************************************************************)
\* a URL whose netloc opens a bracket that it does not close
LnBadUrl == <<"h", "t", "t", "p", ":", "/", "/", "[">>

\* the k-th of the track URLs of a long playlist file; their ids differ
TrackUrl(k) ==
  HttpsPrefix \o SpotifyHost \o <<"/", "t", "r", "a", "c", "k", "/", LowerCase[k]>>

\* the playlist files the splitter was run on: short ones of tracks drawn
\* freely, and a long one of track URLs
RunFiles ==
  {<<EXTM3U>> \o Concat(entries) :
     entries \in SeqsUpTo(AdderEntries \cup {<<LnBadUrl>>}, MaxRunTracks)}
    \cup {<<EXTM3U>> \o [k \in 1..MaxUrlTracks |-> TrackUrl(k)]}

\* main starts after a run of the splitter; the file at failed_output may
\* hold the lines of an earlier run
InitMain ==
  /\ m3u_file \in RunFiles
  /\ batch_size \in 1..MaxBatchSize
  /\ songs = parse_m3u(m3u_file)
  /\ batches = split_into_batches(songs, batch_size)
  /\ saved_files = save_batches(batches)
  /\ reread = <<>>
  /\ spc = "saved"
  /\ batch_file = <<>>
  /\ rate_limit = DefaultRateLimit
  /\ apc = "idle"
  /\ AdderFreshLocals
  /\ failed_file \in {<<>>, <<LnPath>>}
  /\ mpc = "start"
  /\ batch_files = <<>>
  /\ batch_n = 0
  /\ all_failed_tracks = <<>>
  /\ failed_m3u = <<>>
  /\ truncations = 0
  /\ submitted = <<>>
  /\ processed = <<>>
  /\ DedupIdle
  /\ FetchIdle
  /\ BackupIdle

\* the variables of process_m3u_batch that main does not touch between calls
batchLocals ==
  <<tracks, count, track_ids, failed_tracks, successful, add_i, result, slept,
    pauses, since_pause, search_calls, outcome, add_calls>>

\* open(args.failed_output, 'w') that leaves the lines of the file
OpenForWriteKeeps(lines) == lines

\* with open(args.failed_output, 'w'): pass
OpenForWrite(lines) == <<>>

\* main clears the failed tracks file
MainTruncate ==
  /\ mpc = "start"
  /\ failed_file' = OpenForWrite(failed_file)
  /\ truncations' = truncations + 1
  /\ mpc' = "truncated"
  /\ UNCHANGED <<batch_file, rate_limit, apc, failed_handle, batchLocals>>
  /\ UNCHANGED <<batch_files, batch_n, all_failed_tracks, failed_m3u, submitted,
                 processed>>
  /\ UNCHANGED <<splitVars, dedupVars, fetchVars, backupVars>>

\* sp = setup_spotify_client(): an exception is logged by the except clause
\* of main
MainSetup ==
  /\ mpc = "truncated"
  /\ \E ok \in BOOLEAN : mpc' = (IF ok THEN "client" ELSE "failed")
  /\ UNCHANGED <<batch_files, batch_n, all_failed_tracks, failed_m3u, truncations,
                 submitted, processed>>
  /\ UNCHANGED <<splitVars, adderVars, dedupVars, fetchVars, backupVars>>

\* --batch-file: main processes the one file it is given
MainSingle ==
  /\ mpc = "client"
  /\ \E k \in 1..Len(saved_files) : batch_files' = <<saved_files[k]>>
  /\ batch_n' = 1
  /\ mpc' = "loop"
  /\ UNCHANGED <<all_failed_tracks, failed_m3u, truncations, submitted, processed>>
  /\ UNCHANGED <<splitVars, adderVars, dedupVars, fetchVars, backupVars>>

\* --m3u-file or --batch-dir: batch_files = sorted(glob.glob(...)); without
\* a file main logs and returns
MainGlob ==
  /\ mpc = "client"
  /\ batch_files' = SortedGlob(saved_files)
  /\ batch_n' = 1
  /\ mpc' = (IF saved_files = <<>> THEN "returned" ELSE "loop")
  /\ UNCHANGED <<all_failed_tracks, failed_m3u, truncations, submitted, processed>>
  /\ UNCHANGED <<splitVars, adderVars, dedupVars, fetchVars, backupVars>>

\* main calls process_m3u_batch(sp, batch_file, args.playlist_id,
\* args.failed_output) for the next batch file
MainProcess ==
  /\ mpc = "loop"
  /\ batch_n <= Len(batch_files)
  /\ batch_file' = batch_files[batch_n].lines
  /\ rate_limit' = DefaultRateLimit
  /\ apc' = "start"
  /\ failed_handle' = "none"
  /\ tracks' = <<>>
  /\ count' = 0
  /\ track_ids' = <<>>
  /\ failed_tracks' = <<>>
  /\ successful' = 0
  /\ add_i' = 0
  /\ result' = <<>>
  /\ slept' = FALSE
  /\ pauses' = 0
  /\ since_pause' = 0
  /\ search_calls' = <<>>
  /\ outcome' = <<>>
  /\ add_calls' = <<>>
  /\ processed' = Append(processed, batch_files[batch_n].name)
  /\ mpc' = "batch"
  /\ UNCHANGED <<failed_file, batch_files, batch_n, all_failed_tracks, failed_m3u,
                 truncations, submitted>>
  /\ UNCHANGED <<splitVars, dedupVars, fetchVars, backupVars>>

\* is_spotify_url(track_path) raises ValueError: the exception leaves the
\* track loop and, through the finally clause that closes the file,
\* process_m3u_batch
UrlRaises ==
  /\ apc = "handle"
  /\ UrlParseRaises(Track.path)
  /\ failed_handle' = Finally(failed_handle)
  /\ apc' = "raised"
  /\ UNCHANGED <<batch_file, rate_limit, failed_file, batchLocals>>
  /\ UNCHANGED <<splitVars, dedupVars, fetchVars, backupVars, mainVars>>

\* KeyboardInterrupt during sp.playlist_add_items or during the time.sleep(2)
\* after it: except Exception does not catch it, it leaves the add loop and,
\* through the finally clause, process_m3u_batch and main
AddInterrupted ==
  /\ apc = "add"
  /\ add_i < Len(track_ids)
  /\ \E added \in BOOLEAN :
       /\ add_calls' =
            Append(add_calls, [ids |-> AddBatch(track_ids, add_i), ok |-> added])
       /\ successful' =
            (IF added THEN successful + Len(AddBatch(track_ids, add_i)) ELSE successful)
  /\ failed_handle' = Finally(failed_handle)
  /\ apc' = "interrupted"
  /\ UNCHANGED <<batch_file, rate_limit, tracks, count, track_ids, failed_tracks,
                 failed_file, add_i, result, slept, pauses, since_pause,
                 search_calls, outcome>>
  /\ UNCHANGED <<splitVars, dedupVars, fetchVars, backupVars, mainVars>>

\* process_m3u_batch has returned: all_failed_tracks.extend(failed_tracks),
\* and the loop goes to the next batch file
MainCollect ==
  /\ mpc = "batch"
  /\ apc = "returned"
  /\ all_failed_tracks' = all_failed_tracks \o result[3]
  /\ submitted' = submitted \o Concat([k \in 1..Len(add_calls) |-> add_calls[k].ids])
  /\ batch_n' = batch_n + 1
  /\ mpc' = "loop"
  /\ UNCHANGED <<batch_files, failed_m3u, truncations, processed>>
  /\ UNCHANGED <<splitVars, adderVars, dedupVars, fetchVars, backupVars>>

\* an exception has left process_m3u_batch: the except clause of main logs
\* it; the batch files that remain and create_failed_m3u are skipped
MainCaught ==
  /\ mpc = "batch"
  /\ apc = "raised"
  /\ mpc' = "failed"
  /\ UNCHANGED <<batch_files, batch_n, all_failed_tracks, failed_m3u, truncations,
                 submitted, processed>>
  /\ UNCHANGED <<splitVars, adderVars, dedupVars, fetchVars, backupVars>>

\* if all_failed_tracks:
FailedM3uWanted(failed) == failed # <<>>

\* after the last batch file: create_failed_m3u(all_failed_tracks,
\* args.failed_m3u) if a track failed
MainFinish ==
  /\ mpc = "loop"
  /\ batch_n > Len(batch_files)
  /\ failed_m3u' = (IF FailedM3uWanted(all_failed_tracks)
                      THEN create_failed_m3u(all_failed_tracks) ELSE failed_m3u)
  /\ mpc' = "done"
  /\ UNCHANGED <<batch_files, batch_n, all_failed_tracks, truncations, submitted,
                 processed>>
  /\ UNCHANGED <<splitVars, adderVars, dedupVars, fetchVars, backupVars>>

NextMain ==
  \/ MainTruncate
  \/ MainSetup
  \/ MainSingle
  \/ MainGlob
  \/ MainProcess
  \/ ParseBatch
  \/ Throttle
  \/ HandleUrl
  \/ HandleNoQuery
  \/ SearchFound
  \/ SearchEmpty
  \/ SearchRaises
  \/ UrlRaises
  \/ StartAdding
  \/ AddSucceeds
  \/ AddRaises
  \/ AddInterrupted
  \/ Return
  \/ MainCollect
  \/ MainCaught
  \/ MainFinish

SpecMain == InitMain /\ [][NextMain]_vars

(***************************************************************************)
(* Deduplicator: main of spotify_playlist_deduplicator.py, and             *)
(* find_duplicates and remove_duplicates called by an importing caller.    *)
(*                                                                         *)
(* setup_spotify_client, get_playlist_tracks, find_duplicates and          *)
(* remove_duplicates log through the module global logger.  The module     *)
(* never binds that name: main assigns a local variable of the same name.  *)
(* logger_bound is FALSE for the module as it is, and TRUE when an         *)
(* importing caller has assigned the global.  A statement that logs        *)
(* through the unbound global raises NameError.                            *)
(***************************************************************************)
TrackA == [id |-> "t1", uri |-> "spotify:track:t1", name |-> "A", artists |-> <<"X">>]
TrackB == [id |-> "t2", uri |-> "spotify:track:t2", name |-> "B", artists |-> <<"Y">>]
\* a local file: no id
TrackLocal == [id |-> NoneId, uri |-> "spotify:local:l", name |-> "L", artists |-> <<"Z">>]
\* the track of TrackA delivered without a uri
TrackANoUri == [id |-> "t1", uri |-> NoUri, name |-> "A", artists |-> <<"X">>]

\* the items a playlist page can hold
PlaylistItems ==
  {NoneValue, [track |-> NoneValue], [added_at |-> "d"],
   [track |-> TrackA], [track |-> TrackB], [track |-> TrackLocal],
   [track |-> TrackANoUri]}

\* the playlists at Spotify: short ones of items drawn freely, and long ones
\* of MaxDupPad copies of one track followed by items drawn freely
Playlists ==
  SeqsUpTo(PlaylistItems, MaxItems)
    \cup {[k \in 1..MaxDupPad |-> [track |-> TrackA]] \o tail :
            tail \in SeqsUpTo(PlaylistItems, MaxTail)}

\* main run from the command line, or one function called with its arguments
DedupEntries == {"main", "find_duplicates", "remove_duplicates"}

InitDedup ==
  /\ remote_playlist \in Playlists
  /\ entry \in DedupEntries
  /\ logger_bound \in BOOLEAN
  /\ dry_run \in (IF entry = "main" THEN BOOLEAN ELSE {FALSE})
  /\ credentials \in (IF entry = "main" THEN BOOLEAN ELSE {TRUE})
  /\ playlist_items = (IF entry = "main" THEN <<>> ELSE remote_playlist)
  /\ unique_tracks =
       (IF entry = "remove_duplicates"
          THEN find_duplicates(remote_playlist).track_ids ELSE <<>>)
  /\ duplicate_positions =
       (IF entry = "remove_duplicates"
          THEN find_duplicates(remote_playlist).duplicates ELSE <<>>)
  /\ dpc = (CASE entry = "main" -> "start"
              [] entry = "find_duplicates" -> "fetched"
              [] OTHER -> "remove")
  /\ more_pages = FALSE
  /\ tracks_to_remove = <<>>
  /\ rm_i = 0
  /\ removed_count = 0
  /\ dd_return = -1
  /\ remove_calls = <<>>
  /\ remote_failed = FALSE
  /\ SplitIdle
  /\ AdderIdle
  /\ MainIdle
  /\ FetchIdle
  /\ BackupIdle

\* an exception leaves the function: main's except clause logs it through
\* main's own logger and returns 1; a function called directly raises
Raises ==
  IF entry = "main"
    THEN dpc' = "returned" /\ dd_return' = 1
    ELSE dpc' = "raised" /\ UNCHANGED dd_return

\* remove_duplicates returns: main logs the count and returns 0
Returns ==
  IF entry = "main"
    THEN dpc' = "returned" /\ dd_return' = 0
    ELSE dpc' = "fn_returned" /\ UNCHANGED dd_return

\* sp = setup_spotify_client(): without credentials it logs and raises
\* ValueError, with credentials it logs and builds the client
SetupClient ==
  /\ dpc = "start"
  /\ IF credentials /\ logger_bound
       THEN dpc' = "client" /\ UNCHANGED dd_return
       ELSE Raises
  /\ UNCHANGED <<playlist_items, unique_tracks, duplicate_positions, entry,
                 logger_bound, dry_run, credentials, remote_playlist, more_pages,
                 tracks_to_remove, rm_i, removed_count, remove_calls, remote_failed>>
  /\ UNCHANGED <<splitVars, adderVars, fetchVars, backupVars, mainVars>>

\* playlist = sp.playlist(playlist_id)
GetPlaylist ==
  /\ dpc = "client"
  /\ \E ok \in BOOLEAN :
       IF ok
         THEN dpc' = "fetch" /\ UNCHANGED <<dd_return, remote_failed>>
         ELSE Raises /\ remote_failed' = TRUE
  /\ UNCHANGED <<playlist_items, unique_tracks, duplicate_positions, entry,
                 logger_bound, dry_run, credentials, remote_playlist, more_pages,
                 tracks_to_remove, rm_i, removed_count, remove_calls>>
  /\ UNCHANGED <<splitVars, adderVars, fetchVars, backupVars, mainVars>>

\* get_playlist_tracks: results = sp.playlist_items(playlist_id), or
\* results = sp.next(results) while results['next']; after the last page the
\* function logs and returns
FetchPage ==
  /\ \/ dpc = "fetch"
     \/ dpc = "paging" /\ more_pages
  /\ \E ok \in BOOLEAN :
       IF ok
         THEN /\ playlist_items' =
                   playlist_items \o PageItems(remote_playlist, Len(playlist_items))
              /\ more_pages' = PageHasNext(remote_playlist, Len(playlist_items))
              /\ IF more_pages'
                   THEN dpc' = "paging" /\ UNCHANGED dd_return
                   ELSE IF logger_bound
                     THEN dpc' = "fetched" /\ UNCHANGED dd_return
                     ELSE Raises
              /\ UNCHANGED remote_failed
         ELSE /\ Raises
              /\ remote_failed' = TRUE
              /\ UNCHANGED <<playlist_items, more_pages>>
  /\ UNCHANGED <<unique_tracks, duplicate_positions, entry, logger_bound, dry_run,
                 credentials, remote_playlist, tracks_to_remove, rm_i,
                 removed_count, remove_calls>>
  /\ UNCHANGED <<splitVars, adderVars, fetchVars, backupVars, mainVars>>

\* unique_tracks, duplicate_positions = find_duplicates(tracks); the function
\* logs the counts before it returns
FindDuplicates ==
  /\ dpc = "fetched"
  /\ IF logger_bound
       THEN /\ unique_tracks' = find_duplicates(playlist_items).track_ids
            /\ duplicate_positions' = find_duplicates(playlist_items).duplicates
            /\ dpc' = "found"
            /\ UNCHANGED dd_return
       ELSE /\ Raises
            /\ UNCHANGED <<unique_tracks, duplicate_positions>>
  /\ UNCHANGED <<playlist_items, entry, logger_bound, dry_run, credentials,
                 remote_playlist, more_pages, tracks_to_remove, rm_i,
                 removed_count, remove_calls, remote_failed>>
  /\ UNCHANGED <<splitVars, adderVars, fetchVars, backupVars, mainVars>>

\* main removes although --dry-run was given
RemovalWantedInDryRun == duplicate_positions # <<>>

\* if duplicate_positions: ... if not args.dry_run:
RemovalWanted == duplicate_positions # <<>> /\ ~dry_run

\* main after find_duplicates: it lists the duplicates, then calls
\* remove_duplicates, or logs that nothing is removed and returns 0
Decide ==
  /\ dpc = "found"
  /\ entry = "main"
  /\ IF RemovalWanted
       THEN dpc' = "remove" /\ UNCHANGED dd_return
       ELSE dpc' = "returned" /\ dd_return' = 0
  /\ UNCHANGED <<playlist_items, unique_tracks, duplicate_positions, entry,
                 logger_bound, dry_run, credentials, remote_playlist, more_pages,
                 tracks_to_remove, rm_i, removed_count, remove_calls, remote_failed>>
  /\ UNCHANGED <<splitVars, adderVars, fetchVars, backupVars, mainVars>>

\* remove_duplicates up to its loop over the batches: with no position, or
\* with no position that has a uri, it logs and returns 0
RemoveStart ==
  /\ dpc = "remove"
  /\ tracks_to_remove' =
       (IF duplicate_positions = <<>>
          THEN <<>> ELSE TracksToRemove(duplicate_positions, playlist_items))
  /\ IF tracks_to_remove' = <<>>
       THEN /\ (IF logger_bound THEN Returns ELSE Raises)
            /\ UNCHANGED rm_i
       ELSE /\ dpc' = "batches"
            /\ rm_i' = 1
            /\ UNCHANGED dd_return
  /\ removed_count' = 0
  /\ UNCHANGED <<playlist_items, unique_tracks, duplicate_positions, entry,
                 logger_bound, dry_run, credentials, remote_playlist, more_pages,
                 remove_calls, remote_failed>>
  /\ UNCHANGED <<splitVars, adderVars, fetchVars, backupVars, mainVars>>

\* one turn of the loop over the batches:
\* sp.playlist_remove_specific_occurrences_of_items(playlist_id, batch)
\* succeeds, the count grows and the removal is logged; or it raises and the
\* except clause logs the error
RemoveCall ==
  /\ dpc = "batches"
  /\ rm_i <= Len(RemoveBatches(tracks_to_remove))
  /\ LET batch == RemoveBatches(tracks_to_remove)[rm_i]
     IN  \E ok \in BOOLEAN :
           /\ remove_calls' = Append(remove_calls, [batch |-> batch, ok |-> ok])
           /\ IF ok
                THEN /\ remote_playlist' = RemoveOccurrences(remote_playlist, batch)
                     /\ removed_count' = removed_count + Len(batch)
                     /\ UNCHANGED remote_failed
                ELSE /\ remote_failed' = TRUE
                     /\ UNCHANGED <<remote_playlist, removed_count>>
  /\ IF logger_bound
       THEN rm_i' = rm_i + 1 /\ UNCHANGED <<dpc, dd_return>>
       ELSE Raises /\ UNCHANGED rm_i
  /\ UNCHANGED <<playlist_items, unique_tracks, duplicate_positions, entry,
                 logger_bound, dry_run, credentials, more_pages, tracks_to_remove>>
  /\ UNCHANGED <<splitVars, adderVars, fetchVars, backupVars, mainVars>>

\* return removed_count
RemoveReturn ==
  /\ dpc = "batches"
  /\ rm_i > Len(RemoveBatches(tracks_to_remove))
  /\ Returns
  /\ UNCHANGED <<playlist_items, unique_tracks, duplicate_positions, entry,
                 logger_bound, dry_run, credentials, remote_playlist, more_pages,
                 tracks_to_remove, rm_i, removed_count, remove_calls, remote_failed>>
  /\ UNCHANGED <<splitVars, adderVars, fetchVars, backupVars, mainVars>>

NextDedup ==
  \/ SetupClient
  \/ GetPlaylist
  \/ FetchPage
  \/ FindDuplicates
  \/ Decide
  \/ RemoveStart
  \/ RemoveCall
  \/ RemoveReturn

SpecDedup == InitDedup /\ [][NextDedup]_vars

(***************************************************************************)
(* Backup exporter: one pagination loop against a remote collection.       *)
(***************************************************************************)
FetchKinds == {"playlists", "tracks", "liked"}

InitFetch ==
  /\ fetch_kind \in FetchKinds
  /\ remote_items \in {[k \in 1..n |-> k] : n \in 0..MaxRemote}
  /\ fetch_offset = 0
  /\ fetch_items = <<>>
  /\ fetch_requests = <<>>
  /\ fpc = "loop"
  /\ SplitIdle
  /\ AdderIdle
  /\ MainIdle
  /\ DedupIdle
  /\ BackupIdle

\* one turn of while True: the request is sent; the remote answers, the items
\* are appended and the loop goes on to the next offset or breaks; or the
\* request raises, and the exception leaves the function
FetchTurn(limit) ==
  /\ fpc = "loop"
  /\ fetch_requests' = Append(fetch_requests, fetch_offset)
  /\ \E ok \in BOOLEAN :
       IF ok
         THEN LET response == RemotePage(remote_items, limit, fetch_offset)
              IN  /\ fetch_items' = fetch_items \o response.items
                  /\ IF response.next
                       THEN /\ fetch_offset' = NextOffset(fetch_offset, limit)
                            /\ fpc' = "loop"
                       ELSE /\ fpc' = "done"
                            /\ UNCHANGED fetch_offset
         ELSE /\ fpc' = "raised"
              /\ UNCHANGED <<fetch_items, fetch_offset>>
  /\ UNCHANGED <<fetch_kind, remote_items>>
  /\ UNCHANGED <<splitVars, adderVars, dedupVars, backupVars, mainVars>>

\* fetch_all_playlists: sp.current_user_playlists(limit=limit, offset=offset)
FetchPlaylistsTurn == fetch_kind = "playlists" /\ FetchTurn(PlaylistsLimit)

\* fetch_playlist_tracks: sp.playlist_items(playlist_id, limit=limit, offset=offset)
FetchTracksTurn == fetch_kind = "tracks" /\ FetchTurn(TracksLimit)

\* fetch_liked_songs: sp.current_user_saved_tracks(limit=limit, offset=offset)
FetchLikedTurn == fetch_kind = "liked" /\ FetchTurn(LikedLimit)

NextFetch ==
  \/ FetchPlaylistsTurn
  \/ FetchTracksTurn
  \/ FetchLikedTurn

SpecFetch == InitFetch /\ [][NextFetch]_vars

\* the loops have no other statement to wait for: a loop that can take a turn
\* takes it
SpecFetchFair == SpecFetch /\ WF_vars(NextFetch)

(***************************************************************************)
(* Backup exporter: determine_playlist_exports called with a configuration *)
(* and the user's playlists, and main of spotify_playlist_backup.py.       *)
(***************************************************************************)
\* playlist identifiers: 22 characters of [A-Za-z0-9]
IdA == [k \in 1..22 |-> "a"]
IdB == [k \in 1..22 |-> "b"]
IdC == [k \in 1..22 |-> "c"]
\* the identifier of no playlist of the user
IdUnknown == [k \in 1..22 |-> "z"]

NameMix == <<"M", "i", "x">>
NameMixLower == <<"m", "i", "x">>
NameRock == <<"R", "o", "c", "k">>

\* the playlists a user can have; two of them differ in the case of the name
PlaylistMix == [id |-> IdA, name |-> NameMix]
PlaylistMixLower == [id |-> IdB, name |-> NameMixLower]
PlaylistRock == [id |-> IdC, name |-> NameRock]

\* the enumerations of up to n of them, no playlist twice
UserPlaylists(n) ==
  {s \in SeqsUpTo({PlaylistMix, PlaylistMixLower, PlaylistRock}, n) :
     \A i, j \in 1..Len(s) : i # j => s[i] # s[j]}

\* entries of selected_playlists / exclude_playlists
EntryUri == [str |-> PlaylistUriPrefix \o IdA]
EntryUrl ==
  [str |-> <<" ">> \o <<"h", "t", "t", "p", "s", ":", "/", "/">> \o PlaylistUrlMarker \o IdC \o <<"?", "s", "i", "=", "1">> \o <<" ">>]
EntryBareId == [str |-> IdB]
EntryBareUnknownId == [str |-> IdUnknown]
EntryName == [str |-> <<"M", "I", "X">>]
EntryUnknownName == [str |-> <<"n", "o", "p", "e">>]
EntryIdAndName == [id |-> IdA, name |-> NameRock, format |-> <<>>]
EntryUnknownIdAndName == [id |-> IdUnknown, name |-> NameRock, format |-> <<>>]
EntryNameAndFormat == [id |-> <<>>, name |-> <<"r", "o", "c", "k">>, format |-> <<"J", "S", "O", "N">>]
EntryEmptyDict == [id |-> <<>>, name |-> <<>>, format |-> <<>>]
\* an entry that is neither a string nor a dict
EntryNumber == [number |-> 7]

Entries ==
  {EntryUri, EntryUrl, EntryBareId, EntryBareUnknownId, EntryName,
   EntryUnknownName, EntryIdAndName, EntryUnknownIdAndName, EntryNameAndFormat,
   EntryEmptyDict, EntryNumber}

\* the entries main is run with
RunEntries == {EntryUri, EntryName, EntryNameAndFormat, EntryEmptyDict}

\* values of default_format: absent, a format, formats in capitals, an
\* unknown one
FormatValues == {<<>>, FmtJson, <<"M", "3", "U">>, <<"B", "o", "t", "h">>, <<"x", "m", "l">>}

\* the configurations load_config returns; the list the mode does not read
\* holds one entry
Configs(entries, formats, n) ==
  {[mode |-> "all", selected_playlists |-> <<EntryBareId>>, exclude_playlists |-> e,
    default_format |-> f, include_liked_songs |-> l] :
     e \in SeqsUpTo(entries, n), f \in formats, l \in BOOLEAN}
  \cup
  {[mode |-> "selected", selected_playlists |-> e, exclude_playlists |-> <<EntryBareId>>,
    default_format |-> f, include_liked_songs |-> l] :
     e \in SeqsUpTo(entries, n), f \in formats, l \in BOOLEAN}

\* determine_playlist_exports is called with a configuration and the list of
\* the user's playlists
InitExports ==
  /\ config \in {c \in Configs(Entries, {<<>>, <<"M", "3", "U">>}, MaxEntries) :
                   c.include_liked_songs}
  /\ user_playlists \in UserPlaylists(MaxPlaylists)
  /\ playlists = user_playlists
  /\ planned_exports = <<>>
  /\ export_records = <<>>
  /\ exp_i = 0
  /\ writes = <<>>
  /\ dirs = {}
  /\ manifest = NoneValue
  /\ failed_export = 0
  /\ bpc = "call"
  /\ SplitIdle
  /\ AdderIdle
  /\ MainIdle
  /\ DedupIdle
  /\ FetchIdle

\* exports = determine_playlist_exports(config, playlists)
DetermineExports ==
  /\ bpc = "call"
  /\ planned_exports' = determine_playlist_exports(config, playlists)
  /\ bpc' = "exports"
  /\ UNCHANGED <<config, user_playlists, playlists, export_records, exp_i, writes,
                 dirs, manifest, failed_export>>
  /\ UNCHANGED <<splitVars, adderVars, dedupVars, fetchVars, mainVars>>

NextExports == DetermineExports

SpecExports == InitExports /\ [][NextExports]_vars

\* main is run with a configuration, against the playlists of the user
InitBackup ==
  /\ config \in Configs(RunEntries, FormatValues, MaxRunEntries)
  /\ user_playlists \in UserPlaylists(MaxPlaylists)
  /\ playlists = <<>>
  /\ planned_exports = <<>>
  /\ export_records = <<>>
  /\ exp_i = 0
  /\ writes = <<>>
  /\ dirs = {}
  /\ manifest = NoneValue
  /\ failed_export = 0
  /\ bpc = "start"
  /\ SplitIdle
  /\ AdderIdle
  /\ MainIdle
  /\ DedupIdle
  /\ FetchIdle

\* root_dir
RootDir == <<"root">>

\* playlist_dir of a planned export, the slug left as the name it is made of
PlaylistDir(export) ==
  <<"root", IF export.name # <<>> THEN export.name ELSE export.id,
    SubSeq(export.id, 1, 8)>>

\* liked_dir
LikedDir == <<"root", "liked_songs">>

\* 'liked_songs', the id of the record of the saved tracks
LikedSongsId == <<"l", "i", "k", "e", "d", "_", "s", "o", "n", "g", "s">>

\* 'Liked Songs'
LikedSongsName == <<"L", "i", "k", "e", "d", " ", "S", "o", "n", "g", "s">>

\* the writes of backup_playlist / backup_liked_songs, whatever the formats
WritesOfIgnoringFormats(call, directory, export_formats) ==
  <<[call |-> call, directory |-> directory, file |-> "metadata.json"],
    [call |-> call, directory |-> directory, file |-> "tracks.json"],
    [call |-> call, directory |-> directory, file |-> "playlist.m3u"]>>

\* if 'json' in export_formats: write_metadata_files(...)
\* if 'm3u' in export_formats: write_m3u(...)
WritesOf(call, directory, export_formats) ==
  (IF \E k \in 1..Len(export_formats) : export_formats[k] = FmtJson
     THEN <<[call |-> call, directory |-> directory, file |-> "metadata.json"],
            [call |-> call, directory |-> directory, file |-> "tracks.json"]>>
     ELSE <<>>)
  \o
  (IF \E k \in 1..Len(export_formats) : export_formats[k] = FmtM3u
     THEN <<[call |-> call, directory |-> directory, file |-> "playlist.m3u"]>>
     ELSE <<>>)

\* config = load_config(args.config); sp = setup_spotify_client(): a failure
\* is logged and main returns
BackupSetup ==
  /\ bpc = "start"
  /\ \E ok \in BOOLEAN : bpc' = (IF ok THEN "client" ELSE "returned")
  /\ UNCHANGED <<config, user_playlists, playlists, planned_exports, export_records,
                 exp_i, writes, dirs, manifest, failed_export>>
  /\ UNCHANGED <<splitVars, adderVars, dedupVars, fetchVars, mainVars>>

\* user_profile = sp.current_user(); playlists = fetch_all_playlists(sp): an
\* exception of a remote call leaves main
BackupEnumerate ==
  /\ bpc = "client"
  /\ \E ok \in BOOLEAN :
       IF ok
         THEN /\ playlists' = FetchAll(user_playlists, PlaylistsLimit, 0, <<>>)
              /\ bpc' = "enumerated"
         ELSE /\ bpc' = "crashed"
              /\ UNCHANGED playlists
  /\ UNCHANGED <<config, user_playlists, planned_exports, export_records, exp_i,
                 writes, dirs, manifest, failed_export>>
  /\ UNCHANGED <<splitVars, adderVars, dedupVars, fetchVars, mainVars>>

\* the run goes on although nothing is planned and liked songs are disabled
NothingToDoNever(planned) == FALSE

\* not planned_exports and not config.get('include_liked_songs', True)
NothingToDo(planned) == planned = <<>> /\ ~config.include_liked_songs

\* planned_exports = determine_playlist_exports(config, playlists); with
\* nothing to do main returns, else it creates root_dir
BackupPlan ==
  /\ bpc = "enumerated"
  /\ planned_exports' = determine_playlist_exports(config, playlists)
  /\ IF NothingToDo(planned_exports')
       THEN /\ bpc' = "returned"
            /\ UNCHANGED <<dirs, exp_i>>
       ELSE /\ dirs' = dirs \cup {RootDir}
            /\ exp_i' = 1
            /\ bpc' = "exporting"
  /\ UNCHANGED <<config, user_playlists, playlists, export_records, writes,
                 manifest, failed_export>>
  /\ UNCHANGED <<splitVars, adderVars, dedupVars, fetchVars, mainVars>>

\* one turn of for entry in planned_exports: backup_playlist reads the
\* playlist (its id and name are those of the planned export) and its
\* tracks, creates playlist_dir, writes the files of the formats and returns
\* the record; main has no except clause around the call, so an exception of
\* sp.playlist or fetch_playlist_tracks leaves backup_playlist and main
BackupPlaylist ==
  /\ bpc = "exporting"
  /\ exp_i <= Len(planned_exports)
  /\ \E ok \in BOOLEAN :
       IF ok
         THEN LET export == planned_exports[exp_i]
              IN  /\ dirs' = dirs \cup {PlaylistDir(export)}
                  /\ writes' = writes \o WritesOf(Len(export_records) + 1,
                                                  PlaylistDir(export), export.format)
                  /\ export_records' =
                       Append(export_records,
                              [id |-> export.id, name |-> export.name,
                               directory |-> PlaylistDir(export),
                               formats |-> export.format])
                  /\ exp_i' = exp_i + 1
                  /\ UNCHANGED <<bpc, failed_export>>
         ELSE /\ bpc' = "crashed"
              /\ failed_export' = exp_i
              /\ UNCHANGED <<dirs, writes, export_records, exp_i>>
  /\ UNCHANGED <<config, user_playlists, playlists, planned_exports, manifest>>
  /\ UNCHANGED <<splitVars, adderVars, dedupVars, fetchVars, mainVars>>

\* if config.get('include_liked_songs', True): backup_liked_songs(...)
BackupLikedSongs ==
  /\ bpc = "exporting"
  /\ exp_i > Len(planned_exports)
  /\ config.include_liked_songs
  /\ \E ok \in BOOLEAN :
       IF ok
         THEN /\ dirs' = dirs \cup {LikedDir}
              /\ writes' = writes \o WritesOf(Len(export_records) + 1, LikedDir,
                                              parse_format(config.default_format))
              /\ export_records' =
                   Append(export_records,
                          [id |-> LikedSongsId, name |-> LikedSongsName,
                           directory |-> LikedDir,
                           formats |-> parse_format(config.default_format)])
              /\ bpc' = "exported"
              /\ UNCHANGED failed_export
         ELSE /\ bpc' = "crashed"
              /\ failed_export' = exp_i
              /\ UNCHANGED <<dirs, writes, export_records>>
  /\ UNCHANGED <<config, user_playlists, playlists, planned_exports, exp_i, manifest>>
  /\ UNCHANGED <<splitVars, adderVars, dedupVars, fetchVars, mainVars>>

\* create_manifest(os.path.join(root_dir, 'manifest.json'), manifest)
WriteManifest ==
  /\ \/ bpc = "exported"
     \/ /\ bpc = "exporting"
        /\ exp_i > Len(planned_exports)
        /\ ~config.include_liked_songs
  /\ manifest' = [mode |-> config.mode,
                  include_liked_songs |-> config.include_liked_songs,
                  backups_created |-> export_records]
  /\ writes' = Append(writes, [call |-> 0, directory |-> RootDir, file |-> "manifest.json"])
  /\ bpc' = "done"
  /\ UNCHANGED <<config, user_playlists, playlists, planned_exports, export_records,
                 exp_i, dirs, failed_export>>
  /\ UNCHANGED <<splitVars, adderVars, dedupVars, fetchVars, mainVars>>

NextBackup ==
  \/ BackupSetup
  \/ BackupEnumerate
  \/ BackupPlan
  \/ BackupPlaylist
  \/ BackupLikedSongs
  \/ WriteManifest

SpecBackup == InitBackup /\ [][NextBackup]_vars

(***************************************************************************)
(* Properties of the splitter run                                          *)
(***************************************************************************)
IsString(s) == s \in Seq(STRING)

\* C1: split_into_batches returns batches whose concatenation is the input
\* list, each holding between 1 and batch_size records and each but the last
\* holding exactly batch_size records; an empty list gives no batch.
C1_SplitIsPartition ==
  spc \in {"split", "saved", "reread"} =>
    /\ Concat(batches) = songs
    /\ \A k \in 1..Len(batches) : Len(batches[k]) >= 1 /\ Len(batches[k]) <= batch_size
    /\ \A k \in 1..(Len(batches) - 1) : Len(batches[k]) = batch_size
    /\ (songs = <<>> => batches = <<>>)

\* C1 witness: a split with a full batch followed by a shorter last batch
C1_Witness ==
  /\ spc = "split"
  /\ Len(batches) >= 2
  /\ Len(batches[1]) = batch_size
  /\ Len(batches[Len(batches)]) < batch_size

\* the raw lines of the file that are non-empty and do not start with '#'
RawPathLines(lines) == SelectSeq(lines, LAMBDA l : l # <<>> /\ ~StartsWith(l, Hash))

\* the stripped lines of the file that are non-empty and do not start with '#'
RECURSIVE StrippedPathLines(_)
StrippedPathLines(lines) ==
  IF lines = <<>> THEN <<>>
  ELSE LET l == Strip(Head(lines))
       IN  (IF l # <<>> /\ ~StartsWith(l, Hash) THEN <<l>> ELSE <<>>)
             \o StrippedPathLines(Tail(lines))

\* every record has the fields of a track record, with a proper path
SongsWellTyped ==
  \A k \in 1..Len(songs) :
    /\ songs[k].path # <<>> /\ ~StartsWith(songs[k].path, Hash)
    /\ songs[k].duration \in Int
    /\ IsString(songs[k].path) /\ IsString(songs[k].title)
    /\ IsString(songs[k].artist) /\ IsString(songs[k].metadata)

\* C2 as stated: parse_m3u returns one record per non-empty line of the file
\* that does not start with '#', and every record is well typed.
C2_OnePerRawLine ==
  spc # "start" => Len(songs) = Len(RawPathLines(m3u_file)) /\ SongsWellTyped

\* C2 amended: parse_m3u returns one record per line that, once its
\* surrounding whitespace is stripped, is non-empty and does not start with
\* '#'; the records are in file order, the k-th record's path is the k-th
\* such stripped line, and every record is well typed.
C2_OnePerStrippedLine ==
  spc # "start" =>
    /\ Len(songs) = Len(StrippedPathLines(m3u_file))
    /\ \A k \in 1..Len(songs) : songs[k].path = StrippedPathLines(m3u_file)[k]
    /\ SongsWellTyped

\* C2 witness: a parsed file holding header/comment/metadata lines and two
\* path lines, one of them padded with whitespace
C2_Witness ==
  /\ spc = "parsed"
  /\ Len(songs) >= 2
  /\ Len(songs) < Len(m3u_file)
  /\ \E i \in 1..Len(m3u_file) :
       Strip(m3u_file[i]) # m3u_file[i] /\ Strip(m3u_file[i]) = songs[Len(songs)].path

\* line i of the file, stripped
Stripped(i) == Strip(m3u_file[i])

IsPathLine(i) == Stripped(i) # <<>> /\ ~StartsWith(Stripped(i), Hash)

IsExtinfLine(i) == StartsWith(Stripped(i), EXTINF)

\* the index of the k-th path line of the file
PathLineIndex(k) ==
  CHOOSE i \in 1..Len(m3u_file) :
    IsPathLine(i) /\ Cardinality({j \in 1..i : IsPathLine(j)}) = k

\* the #EXTINF lines seen since the path line before line i
PendingExtinf(i) ==
  {j \in 1..(i - 1) : IsExtinfLine(j) /\ \A m \in j..(i - 1) : ~IsPathLine(m)}

\* the most recent of them
LastExtinf(i) == CHOOSE j \in PendingExtinf(i) : \A m \in PendingExtinf(i) : m <= j

\* C3: the record of a path line carries the duration and metadata (and the
\* title and artist) of the most recent #EXTINF line seen since the previous
\* path line when that line is well-formed, and the defaults when there is no
\* such line or it is malformed; other '#' lines in between cancel nothing.
C3_MetadataAppliesToNextPath ==
  spc # "start" =>
    \A k \in 1..Len(songs) :
      LET i == PathLineIndex(k)
      IN  IF PendingExtinf(i) # {} /\ ParseExtinf(Stripped(LastExtinf(i))).ok
            THEN /\ songs[k].duration = IntVal(Split1(From(Stripped(LastExtinf(i)), 8), Comma)[1])
                 /\ songs[k] = [ParseExtinf(Stripped(LastExtinf(i))).song
                                  EXCEPT !.path = Stripped(i)]
            ELSE songs[k] = DefaultSong(Stripped(i))

\* C3 witness: a path line whose well-formed #EXTINF line is separated from it
\* by another '#' line, and whose record carries that metadata
C3_Witness ==
  /\ spc = "parsed"
  /\ \E k \in 1..Len(songs) :
       LET i == PathLineIndex(k)
       IN  /\ PendingExtinf(i) # {}
           /\ LastExtinf(i) < i - 1
           /\ \E m \in (LastExtinf(i) + 1)..(i - 1) : StartsWith(Stripped(m), Hash)
           /\ songs[k].metadata # <<>>
           /\ songs[k].duration # 0

\* C4 as stated: parsing the batch files written by save_batches, in batch
\* order, yields the records that were split, in the same order.
C4_WriteThenReadIsIdentity == spc = "reread" => Concat(reread) = songs

(***************************************************************************)
(* Properties of process_m3u_batch                                         *)
(***************************************************************************)
ResolvedKinds == {"url", "found"}

FailedKinds == {"noquery", "notfound", "raised"}

\* the numbers (1-based, in file order) of the processed tracks that resolved
ResolvedNumbers == {n \in 1..Len(outcome) : outcome[n] \in ResolvedKinds}

\* the numbers of the processed tracks that failed
FailedNumbers == {n \in 1..Len(outcome) : outcome[n] \in FailedKinds}

\* how many members of S are at most n
Rank(S, n) == Cardinality({m \in S : m <= n})

\* the path of track n is a track URL from which an identifier can be extracted
IsTrackUrlWithId(n) ==
  is_spotify_url(tracks[n].path) /\ extract_track_id_from_url(tracks[n].path) # NoId

\* the search calls issued for track n
SearchesFor(n) == {k \in 1..Len(search_calls) : search_calls[k].n = n}

\* the track being handled has no query
NoQueryNow == extract_search_query_from_song(tracks[count]) = <<>>

\* this step issues exactly one search call, for the track being handled
OneSearchIssued ==
  /\ Len(search_calls') = Len(search_calls) + 1
  /\ SubSeq(search_calls', 1, Len(search_calls)) = search_calls
  /\ search_calls'[Len(search_calls')].n = count
  /\ search_calls'[Len(search_calls')].q = extract_search_query_from_song(tracks[count])

\* what C5 requires of one step
C5_Step ==
  /\ (apc = "handle" /\ IsTrackUrlWithId(count)) =>
       /\ track_ids' = Append(track_ids, extract_track_id_from_url(tracks[count].path))
       /\ outcome' = Append(outcome, "url")
       /\ search_calls' = search_calls
  /\ search_calls' # search_calls =>
       /\ apc = "handle"
       /\ OneSearchIssued
       /\ ~IsTrackUrlWithId(count)
       /\ ~NoQueryNow
       /\ apc' = "loop"

\* C5: a track whose path is a track URL with an extractable identifier is
\* resolved to that identifier without a search call; a search call is issued
\* only for a track not resolved from its URL and with a non-empty query, and
\* at most once per track (the track numbers of the calls strictly increase).
C5_UrlResolvedWithoutSearch ==
  /\ [][C5_Step]_vars
  /\ [](\A k \in 1..(Len(search_calls) - 1) : search_calls[k].n < search_calls[k + 1].n)
  /\ [](\A k \in 1..Len(search_calls) : search_calls[k].n \in 1..count)

\* C5 witness: a finished call in which one track was resolved from its URL
\* and another one was searched
C5_Witness ==
  /\ apc = "returned"
  /\ \E n \in 1..Len(outcome) : outcome[n] = "url" /\ IsTrackUrlWithId(n)
  /\ search_calls # <<>>

\* the identifiers submitted so far, in call order
SubmittedIds == Concat([k \in 1..Len(add_calls) |-> add_calls[k].ids])

\* what C6 requires of a step that changes track_ids: the identifier the
\* track being handled resolved to is appended
C6_Step ==
  track_ids' # track_ids =>
    /\ apc = "handle"
    /\ Len(outcome') = count
    /\ outcome'[count] \in ResolvedKinds
    /\ Len(track_ids') = Len(track_ids) + 1
    /\ SubSeq(track_ids', 1, Len(track_ids)) = track_ids
    /\ track_ids'[Len(track_ids')] =
         IF outcome'[count] = "url" THEN extract_track_id_from_url(tracks[count].path)
         ELSE search_calls'[Len(search_calls')].found

\* the state part of C6
C6_State ==
  /\ Len(track_ids) = Cardinality(ResolvedNumbers)
  /\ \A k \in 1..Len(add_calls) :
       Len(add_calls[k].ids) >= 1 /\ Len(add_calls[k].ids) <= 100
  /\ Len(SubmittedIds) <= Len(track_ids)
  /\ SubmittedIds = SubSeq(track_ids, 1, Len(SubmittedIds))
  /\ (add_calls # <<>> => Len(outcome) = Len(tracks) /\ count = Len(tracks))
  /\ (apc = "returned" => SubmittedIds = track_ids)

C7_ThrottleEveryRateLimit ==
  /\ (apc = "handle" => Len(outcome) = count - 1 /\ (slept <=> count % rate_limit = 0))
  /\ pauses = count \div rate_limit
  /\ since_pause <= rate_limit
  /\ (pauses = 0 => since_pause = Len(search_calls))

\* C7 witness: as many searches as rate_limit allows since the last pause
C7_Witness ==
  /\ rate_limit >= 2
  /\ pauses >= 1
  /\ since_pause = rate_limit

\* the step handles a track that fails: no query can be built for it, or its
\* search raises or returns no item
FailsNow ==
  /\ apc = "handle"
  /\ ~IsTrackUrlWithId(count)
  /\ \/ NoQueryNow
     \/ search_calls' # search_calls /\ search_calls'[Len(search_calls')].found = NoId

\* what C8 requires of one step
C8_Step ==
  /\ FailsNow =>
       /\ failed_tracks' = Append(failed_tracks, tracks[count])
       /\ failed_file' = Append(failed_file, tracks[count].path)
       /\ track_ids' = track_ids
       /\ outcome' = Append(outcome, outcome'[count]) /\ outcome'[count] \in FailedKinds
       /\ apc' = "loop"
  /\ ~FailsNow => failed_tracks' = failed_tracks /\ failed_file' = failed_file

\* the state part of C8
C8_State ==
  /\ Len(failed_tracks) = Cardinality(FailedNumbers)
  /\ failed_file = [k \in 1..Len(failed_tracks) |-> failed_tracks[k].path]
  /\ Len(track_ids) = Len(outcome) - Cardinality(FailedNumbers)
  /\ (apc \in {"add", "returned"} => Len(outcome) = Len(tracks))

\* C8: a track whose search raises or returns no item, or for which no query
\* can be built, is recorded once in failed_tracks and once (its path) in the
\* failed-tracks file and never among the resolved identifiers; processing
\* goes on to the last track; the list and the file agree in length and order.
C8_FailuresRecordedOnce == [][C8_Step]_vars /\ []C8_State

\* C8 witness: a finished call in which a track whose search raised is
\* followed by a resolved track
C8_Witness ==
  /\ apc = "returned"
  /\ \E n \in FailedNumbers : outcome[n] = "raised" /\ n + 1 \in ResolvedNumbers

RECURSIVE SumOkSizes(_)
SumOkSizes(calls) ==
  IF calls = <<>> THEN 0
  ELSE (IF Head(calls).ok THEN Len(Head(calls).ids) ELSE 0) + SumOkSizes(Tail(calls))

\* C9: the call returns (added, failed, failed_tracks) with failed =
\* len(failed_tracks), added = the sizes of the add batches that succeeded,
\* resolved + failed = tracks parsed, added + failed <= tracks parsed with
\* equality exactly when every add call succeeded; the tracks of a failed add
\* batch are in neither number and in no failed-track output.
C9_ReturnedCounts ==
  apc = "returned" =>
    /\ result[2] = Len(result[3])
    /\ result[1] = SumOkSizes(add_calls)
    /\ Len(track_ids) + result[2] = Len(tracks)
    /\ result[1] + result[2] <= Len(tracks)
    /\ (result[1] + result[2] = Len(tracks) <=> \A k \in 1..Len(add_calls) : add_calls[k].ok)
    /\ result[2] = Cardinality(FailedNumbers)
    /\ Len(failed_file) = Cardinality(FailedNumbers)
    /\ \A k \in 1..Len(result[3]) : \E n \in FailedNumbers : result[3][k] = tracks[n]

\* C9 witness: a finished call with a failed track, an add batch that
\* succeeded and an add batch that failed
C9_Witness ==
  /\ apc = "returned"
  /\ result[2] >= 1
  /\ \E k \in 1..Len(add_calls) : add_calls[k].ok
  /\ \E k \in 1..Len(add_calls) : ~add_calls[k].ok

(***************************************************************************)
(* Properties of find_duplicates                                           *)
(***************************************************************************)
\* the item at position p, positions counted from 0
ItemAt(p) == playlist_items[p + 1]

Positions == 0..(Len(playlist_items) - 1)

\* the positions whose item has track information
TrackPositions == {p \in Positions : HasTrack(ItemAt(p))}

Flagged == {duplicate_positions[k] : k \in 1..Len(duplicate_positions)}

\* a call of find_duplicates has ended, by a return or by an exception
FindEnded ==
  \/ dpc = "found"
  \/ entry = "find_duplicates" /\ dpc = "raised"

\* C10: when a call of find_duplicates has ended, position p is flagged iff
\* its item has track information and an earlier position has track
\* information with the same identifier; the first occurrence of an
\* identifier is never flagged and is the position stored in the unique-track
\* map; unique identifiers + flagged positions = items with track information.
C10_DuplicatesAreLaterOccurrences ==
  FindEnded =>
    /\ \A p \in Positions :
         p \in Flagged <=>
           /\ p \in TrackPositions
           /\ \E q \in TrackPositions : q < p /\ ItemAt(q).track.id = ItemAt(p).track.id
    /\ Len(duplicate_positions) = Cardinality(Flagged)
    /\ DOMAIN unique_tracks = {ItemAt(p).track.id : p \in TrackPositions}
    /\ \A id \in DOMAIN unique_tracks :
         /\ unique_tracks[id].position \in TrackPositions
         /\ unique_tracks[id].position \notin Flagged
         /\ ItemAt(unique_tracks[id].position).track.id = id
         /\ \A q \in TrackPositions :
              ItemAt(q).track.id = id => unique_tracks[id].position <= q
    /\ Cardinality(DOMAIN unique_tracks) + Len(duplicate_positions)
         = Cardinality(TrackPositions)

\* C10 witness: a repeated identifier is flagged at a position that follows
\* an item without track information
C10_Witness ==
  /\ dpc = "found"
  /\ \E p \in Flagged : \E q \in Positions : q < p /\ q \notin TrackPositions
  /\ unique_tracks # <<>>

(***************************************************************************)
(* Properties of remove_duplicates and of the deduplicator's main          *)
(***************************************************************************)
\* a call of remove_duplicates has ended, by a return or by an exception
RemoveEnded ==
  \/ entry = "remove_duplicates" /\ dpc \in {"fn_returned", "raised"}
  \/ entry = "main" /\ dpc = "returned" /\ RemovalWanted

\* the entries of all removal calls, in the order they were sent
NamedEntries == Concat([k \in 1..Len(remove_calls) |-> remove_calls[k].batch])

\* the entries of the removal calls that succeeded
RemovedEntries ==
  Concat([k \in 1..Len(remove_calls) |->
            IF remove_calls[k].ok THEN remove_calls[k].batch ELSE <<>>])

\* the flagged positions whose track has a uri
FlaggedWithUri == {p \in Flagged : HasUriAt(playlist_items, p)}

\* C11: when a call of remove_duplicates has ended, its removal calls hold at
\* most 100 entries each, every entry names one flagged position and the uri
\* found there, every flagged position that has a uri is named by exactly one
\* entry, the positions fall strictly over the whole sequence of calls, and
\* the playlist has lost exactly the items at the positions the successful
\* calls named (no earlier removal has shifted a later one).
C11_RemovalCallsNameEveryFlaggedPosition ==
  RemoveEnded =>
    /\ \A k \in 1..Len(remove_calls) :
         Len(remove_calls[k].batch) <= RemoveBatchSize
    /\ \A i \in 1..Len(NamedEntries) :
         /\ Len(NamedEntries[i].positions) = 1
         /\ NamedEntries[i].positions[1] \in FlaggedWithUri
         /\ NamedEntries[i].uri = ItemAt(NamedEntries[i].positions[1]).track.uri
    /\ \A p \in FlaggedWithUri :
         Cardinality({i \in 1..Len(NamedEntries) : NamedEntries[i].positions[1] = p}) = 1
    /\ \A i \in 1..(Len(NamedEntries) - 1) :
         NamedEntries[i].positions[1] > NamedEntries[i + 1].positions[1]
    /\ remote_playlist = RemoveOccurrences(playlist_items, RemovedEntries)

\* the playlist as it was when the run began: removal calls are the only
\* writer, and they come after the playlist has been read
StartPlaylist == IF remove_calls = <<>> THEN remote_playlist ELSE playlist_items

\* the positions of the playlist whose identifier occurred at an earlier one
RepeatedPositions ==
  LET found == find_duplicates(StartPlaylist).duplicates
  IN  {found[k] : k \in 1..Len(found)}

\* C12: when main, run without --dry-run and with credentials on a playlist
\* in which an identifier occurs more than once, has returned and no remote
\* call has raised, it has returned 0 and its removal calls name every
\* flagged position.
C12_MainRemovesEveryDuplicate ==
  ( /\ entry = "main"
    /\ dpc = "returned"
    /\ ~dry_run
    /\ credentials
    /\ ~remote_failed
    /\ RepeatedPositions # {} ) =>
    /\ dd_return = 0
    /\ \A p \in RepeatedPositions :
         \E i \in 1..Len(NamedEntries) : NamedEntries[i].positions[1] = p

\* C13: in a run with --dry-run, and in any run while no duplicate position
\* is flagged, no step sends a removal call or changes the playlist at
\* Spotify, and no removal call has been sent.
C13_NoRemovalInDryRunOrWithoutDuplicates ==
  /\ [][(dry_run \/ duplicate_positions = <<>>) =>
          UNCHANGED <<remote_playlist, remove_calls>>]_vars
  /\ []((dry_run \/ duplicate_positions = <<>>) => remove_calls = <<>>)

\* C13 witness: main has returned from a dry run that flagged a duplicate
C13_Witness ==
  /\ entry = "main"
  /\ dry_run
  /\ dpc = "returned"
  /\ duplicate_positions # <<>>
  /\ dd_return = 0
  /\ remove_calls = <<>>

\* C20: when a call of remove_duplicates has ended, it has returned, every
\* batch has been submitted in order whether or not an earlier removal call
\* raised, and the count it returned is the sum of the sizes of the batches
\* whose call succeeded; with no flagged position that has a uri it has
\* returned 0 and has made no remote call.
C20_EveryBatchSubmittedAndCounted ==
  RemoveEnded =>
    /\ dpc # "raised"
    /\ entry = "main" => dd_return = 0
    /\ remove_calls =
         [k \in 1..Len(RemoveBatches(TracksToRemove(duplicate_positions, playlist_items))) |->
            [batch |-> RemoveBatches(TracksToRemove(duplicate_positions, playlist_items))[k],
             ok    |-> remove_calls[k].ok]]
    /\ removed_count = Len(RemovedEntries)
    /\ FlaggedWithUri = {} => remove_calls = <<>> /\ removed_count = 0

\* the track identifiers of the items of a playlist
IdsOf(list) ==
  {list[i].track.id : i \in {j \in 1..Len(list) : HasTrack(list[j])}}

\* the items of a playlist that hold a track with a uri
WithUri(list) ==
  {i \in 1..Len(list) : HasTrack(list[i]) /\ list[i].track.uri # NoUri}

\* C21: when a call of remove_duplicates has ended, every track identifier of
\* the snapshot the removals were computed from is still in the playlist,
\* whichever removal calls succeeded; and when no removal call has failed, no
\* two items of the playlist that have a uri hold the same identifier.
C21_RemovalsKeepFirstOccurrences ==
  RemoveEnded =>
    /\ IdsOf(playlist_items) \subseteq IdsOf(remote_playlist)
    /\ (\A k \in 1..Len(remove_calls) : remove_calls[k].ok) =>
         \A i, j \in WithUri(remote_playlist) :
           remote_playlist[i].track.id = remote_playlist[j].track.id => i = j

(***************************************************************************)
(* Properties of the backup exporter                                       *)
(***************************************************************************)
\* limit of the fetch function that runs
FetchLimit ==
  CASE fetch_kind = "playlists" -> PlaylistsLimit
    [] fetch_kind = "tracks" -> TracksLimit
    [] OTHER -> LikedLimit

\* C14: a pagination loop requests the offsets 0, limit, 2 * limit, ... in
\* this order; when it has returned, every page but the last one requested
\* reported a next page and the last one did not, and the list returned is
\* the remote collection, each item once and in remote order; and the loop
\* ends.
C14_PaginationReturnsEveryItemOnce ==
  /\ [](\A k \in 1..Len(fetch_requests) : fetch_requests[k] = (k - 1) * FetchLimit)
  /\ [](fpc = "done" =>
          /\ fetch_items = remote_items
          /\ \A k \in 1..(Len(fetch_requests) - 1) :
               fetch_requests[k] + FetchLimit < Len(remote_items)
          /\ fetch_requests[Len(fetch_requests)] + FetchLimit >= Len(remote_items))
  /\ <>(fpc # "loop")

\* C14 witness: fetch_playlist_tracks has returned after a second page
C14_Witness ==
  /\ fpc = "done"
  /\ fetch_kind = "tracks"
  /\ Len(fetch_requests) = 2
  /\ Len(fetch_items) > TracksLimit

\* the enumerated playlists whose name is name, letter case apart
Named(name) ==
  {k \in 1..Len(playlists) : Lower(playlists[k].name) = Lower(name)}

\* entry e resolves to the enumerated playlist p: by the identifier it gives,
\* or, if it gives none, by a name that only p has
ResolvesTo(e, p) ==
  IF resolve_identifier(e).id # <<>>
    THEN p.id = resolve_identifier(e).id
    ELSE /\ resolve_identifier(e).name # <<>>
         /\ Lower(p.name) = Lower(resolve_identifier(e).name)
         /\ Cardinality(Named(resolve_identifier(e).name)) = 1

\* entry e resolves to an enumerated playlist
Resolves(e) == \E k \in 1..Len(playlists) : ResolvesTo(e, playlists[k])

\* the identifiers and names of the planned exports, in order
PlannedPlaylists ==
  [k \in 1..Len(planned_exports) |->
     [id |-> planned_exports[k].id, name |-> planned_exports[k].name]]

\* C18: in mode 'all' the planned exports are the enumerated playlists, each
\* once and in enumeration order, without exactly those that an exclude
\* entry resolves to; when no exclude entry resolves (none names a playlist,
\* or a name matches several) every playlist is exported.
C18_AllModeOmitsExactlyTheExcluded ==
  (bpc = "exports" /\ config.mode = "all") =>
    /\ PlannedPlaylists =
         SelectSeq(playlists,
                   LAMBDA p : ~\E k \in 1..Len(config.exclude_playlists) :
                                 ResolvesTo(config.exclude_playlists[k], p))
    /\ (\A k \in 1..Len(config.exclude_playlists) :
           ~Resolves(config.exclude_playlists[k])) => PlannedPlaylists = playlists

\* C18 witness: of two playlists whose names differ in case only, one is
\* excluded by its identifier while the entry that gives the name excludes
\* nothing
C18_Witness ==
  /\ bpc = "exports"
  /\ config.mode = "all"
  /\ Len(playlists) = 2
  /\ Len(planned_exports) = 1
  /\ \E k \in 1..Len(config.exclude_playlists) :
       /\ config.exclude_playlists[k] = EntryName
       /\ Cardinality(Named(resolve_identifier(EntryName).name)) = 2

\* C19: in mode 'selected' there is one planned export for every selected
\* entry that resolves, in the order of the entries, and it is the enumerated
\* playlist the entry resolves to; an entry that does not resolve (unknown
\* identifier, even beside a known name; unknown name; name of several
\* playlists; neither identifier nor name) adds nothing and stops nothing.
C19_SelectedModeSkipsUnresolvedEntries ==
  (bpc = "exports" /\ config.mode = "selected") =>
    LET hits == SelectSeq(config.selected_playlists, Resolves)
    IN  /\ Len(planned_exports) = Len(hits)
        /\ \A j \in 1..Len(hits) :
             /\ ResolvesTo(hits[j], PlannedPlaylists[j])
             /\ \E k \in 1..Len(playlists) : playlists[k] = PlannedPlaylists[j]

\* C19 witness: an entry with an unknown identifier and the name of an
\* enumerated playlist is skipped, and the entry after it is exported by its
\* identifier and not by its name
C19_Witness ==
  /\ bpc = "exports"
  /\ config.mode = "selected"
  /\ config.selected_playlists = <<EntryUnknownIdAndName, EntryIdAndName>>
  /\ \E k \in 1..Len(playlists) : playlists[k] = PlaylistRock
  /\ PlannedPlaylists = <<PlaylistMix>>

\* the files call k of backup_playlist / backup_liked_songs has written
WrittenBy(k, file) ==
  \E w \in 1..Len(writes) : writes[w].call = k /\ writes[w].file = file

\* fmt is among the formats
Selects(formats, fmt) == \E k \in 1..Len(formats) : formats[k] = fmt

\* the formats are a non-empty subset of {json, m3u}
NonEmptySubset(formats) ==
  /\ formats # <<>>
  /\ \A k \in 1..Len(formats) : formats[k] \in {FmtJson, FmtM3u}

\* the format values the configuration holds
ConfiguredFormats ==
  {config.default_format}
  \cup {config.selected_playlists[k].format :
          k \in {j \in 1..Len(config.selected_playlists) :
                   IsDict(config.selected_playlists[j])}}

\* C15: every call of backup_playlist and backup_liked_songs that returned has
\* written metadata.json and tracks.json if and only if json is among its
\* formats, and playlist.m3u if and only if m3u is among them; the formats of
\* a call, and the formats parse_format selects for every configured value,
\* are a non-empty subset of {json, m3u}, and an absent or unknown value
\* selects both.
C15_FilesFollowTheSelectedFormats ==
  /\ \A k \in 1..Len(export_records) :
       /\ NonEmptySubset(export_records[k].formats)
       /\ WrittenBy(k, "metadata.json") <=> Selects(export_records[k].formats, FmtJson)
       /\ WrittenBy(k, "tracks.json") <=> Selects(export_records[k].formats, FmtJson)
       /\ WrittenBy(k, "playlist.m3u") <=> Selects(export_records[k].formats, FmtM3u)
  /\ \A value \in ConfiguredFormats :
       /\ NonEmptySubset(parse_format(value))
       /\ (value = <<>> \/ Lower(value) \notin {FmtBoth, FmtJson, FmtM3u})
            => parse_format(value) = <<FmtJson, FmtM3u>>

\* a playlist was backed up as json only and the saved tracks as m3u only
C15_Witness ==
  /\ Len(export_records) >= 2
  /\ export_records[1].formats = <<FmtJson>>
  /\ WrittenBy(1, "tracks.json") /\ ~WrittenBy(1, "playlist.m3u")
  /\ export_records[Len(export_records)].formats = <<FmtM3u>>
  /\ WrittenBy(Len(export_records), "playlist.m3u")
  /\ ~WrittenBy(Len(export_records), "metadata.json")

\* the run has ended
BackupEnded == bpc \in {"returned", "crashed", "done"}

\* planned export k has a record
BackedUp(k) ==
  \E r \in 1..Len(export_records) : export_records[r].id = planned_exports[k].id

\* C16: once the run has ended after a remote call failed while a planned
\* playlist was being backed up, every later planned playlist has been backed
\* up and the manifest has been written.
C16_RunContinuesAfterFailedPlaylist ==
  (BackupEnded /\ failed_export \in 1..Len(planned_exports))
    => /\ manifest # NoneValue
       /\ \A k \in (failed_export + 1)..Len(planned_exports) : BackedUp(k)

\* the ids of the records the run is to produce
ExpectedIds ==
  [k \in 1..Len(planned_exports) |-> planned_exports[k].id]
  \o (IF config.include_liked_songs THEN <<LikedSongsId>> ELSE <<>>)

\* C17: when the manifest is written every planned backup has completed, the
\* manifest holds one record per planned export in planning order and the
\* record of the saved tracks last when they are enabled, and manifest.json is
\* the last file written; a run with no planned export and saved tracks
\* disabled creates no directory under the output root and writes no file of
\* the backup.
C17_ManifestIsWrittenLastAndComplete ==
  /\ manifest # NoneValue =>
       /\ exp_i > Len(planned_exports)
       /\ manifest.backups_created = export_records
       /\ [k \in 1..Len(export_records) |-> export_records[k].id] = ExpectedIds
       /\ \A w \in 1..Len(writes) :
            writes[w].file = "manifest.json" <=> w = Len(writes)
  /\ (bpc # "start" /\ bpc # "client" /\ bpc # "enumerated"
      /\ planned_exports = <<>> /\ ~config.include_liked_songs)
       => dirs = {} /\ writes = <<>>

\* the manifest of a run that backed up a playlist and the saved tracks
C17_Witness ==
  /\ manifest # NoneValue
  /\ Len(manifest.backups_created) >= 2
  /\ manifest.backups_created[Len(manifest.backups_created)].id = LikedSongsId
  /\ Len(writes) >= 3

(***************************************************************************)
(* Properties of main of the adder                                         *)
(***************************************************************************)
\* main has gone through every file of the batch directory
DirRunDone == mpc = "done" /\ batch_files = SortedGlob(saved_files)

\* C22: when main has gone through the batch directory the splitter wrote,
\* it has processed the batch files in the order of their numbers, and when
\* every track of the playlist file resolves from its URL the identifiers
\* were submitted in the order of the tracks in the playlist file.
C22_BatchesProcessedInBatchNumberOrder ==
  DirRunDone =>
    /\ processed = [k \in 1..Len(saved_files) |-> saved_files[k].name]
    /\ (\A k \in 1..Len(songs) : ResolvesFromUrl(songs[k])) =>
         submitted = [k \in 1..Len(songs) |-> extract_track_id_from_url(songs[k].path)]

\* process_m3u_batch has been left
BatchExited == apc \in {"returned", "raised", "interrupted"}

\* C23: whenever process_m3u_batch has been left after it opened the failed
\* tracks file, by its return or by an exception out of the track loop or
\* the add loop, the file is closed, and no step writes to the file while it
\* is closed.
C23_FailedFileClosedOnEveryExit ==
  /\ [](BatchExited => failed_handle = "closed")
  /\ [][failed_handle = "closed" => failed_file' = failed_file]_vars
  /\ [][(failed_file' # failed_file /\ mpc # "start") => failed_handle = "open"]_vars

\* C23 witness: an exception has left the track loop after a failed track
\* was written to the file, and the file is closed
C23_Witness ==
  /\ apc = "raised"
  /\ failed_tracks # <<>>
  /\ failed_file # <<>>
  /\ failed_handle = "closed"

\* the paths of a list of tracks
Paths(list) == [k \in 1..Len(list) |-> list[k].path]

\* C24: the failed tracks file is truncated once, before the first batch is
\* processed; when main has returned with no exception out of a batch, the file
\* holds the paths of the failed tracks of all batches in the order they were
\* processed and nothing else, and the failed tracks playlist is written if
\* and only if a track failed, and then holds those tracks, each once, in the
\* same order.
C24_FailedFilesHoldTheFailedTracks ==
  /\ processed # <<>> => truncations = 1
  /\ mpc \in {"done", "returned"} =>
       /\ truncations = 1
       /\ failed_file = Paths(all_failed_tracks)
       /\ failed_m3u # <<>> <=> all_failed_tracks # <<>>
       /\ failed_m3u # <<>> => Paths(parse_m3u(failed_m3u)) = Paths(all_failed_tracks)

\* C24 witness: main has ended after two batches with a failed track each
C24_Witness ==
  /\ mpc = "done"
  /\ Len(processed) = 2
  /\ Len(all_failed_tracks) = 2
  /\ Len(failed_file) = 2
  /\ failed_m3u # <<>>

====
